---- MODULE Spec2Model ----
(***************************************************************************)
(* Kvik client core: the expiring message-ID cache, the generic node's     *)
(* timestamp validation, and the client's request/response machinery.      *)
(*                                                                         *)
(* Time is counted in units of nodeConf.msgIdCache.timeUnit.  16-bit       *)
(* fields (message ids, timestamps, the cache's tick counter) keep their   *)
(* width: every store into one of them is reduced modulo 2^16.             *)
(***************************************************************************)
EXTENDS Integers, Sequences, FiniteSets, TLC

VARIABLES
    m_cache,        \* LocalMsgIdCache::m_cache   addr -> expiry tick -> set of ids
    m_tickNum,      \* LocalMsgIdCache::m_tickNum (uint16_t)
    m_maxAge,       \* LocalMsgIdCache::m_maxAge == nodeConf.msgIdCache.maxAge (uint8_t)
    ticksDone,      \* number of cache timer ticks since construction (history)
    sinceIns,       \* history: ticks since the last successful insert of (addr, id), -1 if none
    lastIns,        \* history: the last LocalMsgIdCache::insert call and its outcome
    fnArgs,         \* arguments of the pure function under check
    fnRet,          \* its result: [done, val]
    m_gw,           \* Client::m_gw: [addr, tsDiff, channel], addr = NoAddr when there is none
    m_pendingMsgs,  \* Client::m_pendingMsgs: request id -> PendingMsg
    m_subDB,        \* Client::m_subDB
    m_msgId,        \* INode::m_msgId (uint16_t)
    m_msgsFailCnt,  \* Client::m_msgsFailCnt
    m_timeSyncNoRespCnt,    \* Client::m_timeSyncNoRespCnt
    m_ignoreInvalidMsgTs,   \* Client::m_ignoreInvalidMsgTs
    dscvSyncMutex,  \* holder of Client::m_dscvSyncMutex, "free" if none
    gwWdNotified,   \* m_gwWdCv has been notified and the watchdog has not run since
    steadyUnits,    \* std::chrono::steady_clock in time units
    tickDue,        \* the cache timer fires before the clock reaches the next unit
    usr,            \* the user threads: position and locals of the call in progress
    rcv,            \* the local layer's receive thread: position and locals
    reqCount,       \* number of message ids handed out by getMsgId (history)
    accepted,       \* history: request ids for which recv accepted a response
    acc,            \* history: a SUB_DATA message that recv accepted, and when
    lastRecv,       \* history: outcome of the recv call that just returned
    m_conf,         \* Client::m_conf.gwDscv: delays and thresholds of discovery
    channels,       \* m_ll->getChannels(): the channels of the local layer
    llChannel,      \* the channel the local layer is set to
    scanLog,        \* history: the setChannel calls and probes issued on the local layer
    m_dscvLoopRun,  \* Client::m_dscvLoopRun
    m_gwWdThread,   \* Client::m_gwWdThread: position of gwWatchdogHandler
    ctor,           \* the constructor: position, retained data, results of its steps
    dtor,           \* position of the destructor
    inserted,       \* history: key -> value of the entries inserted and not removed
    m_subs,         \* LocalBroker::m_subs: the trie of subscribed patterns
    m_recvCb,       \* IRemoteLayer::m_recvCb of the broker: "null" or "set"
    timer,          \* a Timer: its members and the position of its handler thread
    llRecvCb,       \* the receive callback set on the local layer: "null" or "recvLocal"
    m_mutex         \* holder of Client::m_mutex between two steps, "free" if none

cacheVars == <<m_cache, m_tickNum, m_maxAge>>
cacheHist == <<ticksDone, sinceIns, lastIns>>
fnVars == <<fnArgs, fnRet>>
clientVars == <<m_gw, m_pendingMsgs, m_subDB, m_msgId, m_msgsFailCnt, m_timeSyncNoRespCnt,
                m_ignoreInvalidMsgTs, dscvSyncMutex, gwWdNotified>>
clockVars == <<steadyUnits, tickDue>>
threadVars == <<usr, rcv>>
histVars == <<reqCount, accepted, acc, lastRecv>>
\* What no step of a call changes; what a call changes on the local layer and
\* at its call site.
compVars == <<m_subs, m_recvCb, timer>>
fixedVars == <<m_conf, m_mutex, llRecvCb, compVars, channels, m_dscvLoopRun, dtor, inserted>>
siteVars == <<llChannel, scanLog, m_gwWdThread, ctor>>
extVars == <<fixedVars, siteVars>>

vars == <<cacheVars, cacheHist, fnVars, clientVars, clockVars, threadVars, histVars,
          extVars>>

----------------------------------------------------------------------------
(* Bounds of the model *)

\* Cache timer ticks explored in SpecCache.
MaxTicks == 5
\* Message ids 0..MaxCacheId are inserted in SpecCache.
MaxCacheId == 1
\* Message ids the client hands out in one behaviour (requests and acknowledgments).
MaxReqs == 2
\* Peers send messages with ids 0..MaxPeerId.
MaxPeerId == 1
\* Attempts explored of a discovery with an unlimited number of attempts.
MaxAttempts == 2

----------------------------------------------------------------------------
(* Integer widths *)

U16 == 65536

\* Conversion to uint16_t.
ToU16(x) == x % U16

Addrs == {"gw2", "gw3"}
CacheIds == 0..MaxCacheId
PeerIds == 0..MaxPeerId

----------------------------------------------------------------------------
(* LocalMsgIdCache *)

\* The set of ids cached for addr, over all of its expiry buckets.
CachedIds(cache, addr) ==
    IF addr \in DOMAIN cache
    THEN UNION {cache[addr][e] : e \in DOMAIN cache[addr]}
    ELSE {}

\* A map with key k set to v (std::unordered_map operator[] followed by a store).
MapPut(f, k, v) == [x \in DOMAIN f \cup {k} |-> IF x = k THEN v ELSE f[x]]

\* A faulty insert: the expiry tick is kept as the int it was computed as.
LocalMsgIdCache_insert_noWrap(cache, tickNum, maxAge, addr, id) ==
    LET expTickNum == tickNum + maxAge + 1
        addrCache == IF addr \in DOMAIN cache THEN cache[addr] ELSE <<>>
        bucket == IF expTickNum \in DOMAIN addrCache THEN addrCache[expTickNum] ELSE {}
    IN IF id \in CachedIds(cache, addr)
       THEN [ret |-> FALSE, cache |-> cache]
       ELSE [ret |-> TRUE,
             cache |-> MapPut(cache, addr, MapPut(addrCache, expTickNum, bucket \cup {id}))]

\* A faulty insert: entries expire one tick early.
LocalMsgIdCache_insert_early(cache, tickNum, maxAge, addr, id) ==
    LET expTickNum == ToU16(tickNum + maxAge)
        addrCache == IF addr \in DOMAIN cache THEN cache[addr] ELSE <<>>
        bucket == IF expTickNum \in DOMAIN addrCache THEN addrCache[expTickNum] ELSE {}
    IN IF id \in CachedIds(cache, addr)
       THEN [ret |-> FALSE, cache |-> cache]
       ELSE [ret |-> TRUE,
             cache |-> MapPut(cache, addr, MapPut(addrCache, expTickNum, bucket \cup {id}))]

\* LocalMsgIdCache::insert.  expTickNum is computed as an int and converted to
\* the map's uint16_t key.  Returns the result and the cache after the call.
LocalMsgIdCache_insert(cache, tickNum, maxAge, addr, id) ==
    LET expTickNum == ToU16(tickNum + maxAge + 1)
        addrCache == IF addr \in DOMAIN cache THEN cache[addr] ELSE <<>>
        bucket == IF expTickNum \in DOMAIN addrCache THEN addrCache[expTickNum] ELSE {}
    IN IF id \in CachedIds(cache, addr)
       THEN [ret |-> FALSE, cache |-> cache]
       ELSE [ret |-> TRUE,
             cache |-> MapPut(cache, addr, MapPut(addrCache, expTickNum, bucket \cup {id}))]

\* LocalMsgIdCache::tick: the counter after the increment, and the cache with
\* every bucket expiring at that tick dropped and emptied addresses erased.
LocalMsgIdCache_tick(cache, tickNum) ==
    LET n == ToU16(tickNum + 1)
        kept(a) == [e \in {x \in DOMAIN cache[a] : x # n} |-> cache[a][e]]
        live == {a \in DOMAIN cache : DOMAIN kept(a) # {}}
    IN [tickNum |-> n, cache |-> [a \in live |-> kept(a)]]

----------------------------------------------------------------------------
(* INode *)

\* A faulty validation: the lower end of the window is not checked.
validateMsgTimestamp_noLower(msgTsUnits, nowUnits, maxAge) == msgTsUnits <= nowUnits

\* INode::validateMsgTimestamp, given the value nowUnits that the steady clock
\* and tsDiff yield.  maxDriftUnits is an int (uint8_t - 1), so the operands
\* of the comparisons are promoted to int; the stores into the uint16_t
\* variables nowUnits and msgTsUnits wrap.
validateMsgTimestamp(msgTsUnits, nowUnits, maxAge) ==
    LET maxDriftUnits == maxAge - 1
        underflow == nowUnits - maxDriftUnits > nowUnits
        now2 == IF underflow THEN ToU16(nowUnits + maxDriftUnits) ELSE nowUnits
        ts2 == IF underflow THEN ToU16(msgTsUnits + maxDriftUnits) ELSE msgTsUnits
    IN ts2 <= now2 /\ ts2 >= now2 - maxDriftUnits

----------------------------------------------------------------------------
(* WildcardTrie<SubCb>                                                      *)
(* A string is a sequence of characters.  The trie is a function from the   *)
(* path of each node (the sequence of levels leading to it, <<>> for the    *)
(* root) to the node; a node's levelIndex is the length of its path.        *)

lSep == <<"/">>
lSingleWild == <<"+">>
lMultiWild == <<"#">>

NoCb == "nocb"
NewNode == [value |-> NoCb, isLeaf |-> FALSE]
EmptyTrie == (<<>> :> NewNode)

\* std::string::find(sep, pos) with 1-based positions; 0 stands for npos.
StrFind(key, sep, pos) ==
    LET hits == {p \in pos..(Len(key) - Len(sep) + 1) :
                    SubSeq(key, p, p + Len(sep) - 1) = sep}
    IN IF hits = {} THEN 0 ELSE CHOOSE p \in hits : \A q \in hits : p <= q

RECURSIVE SplitFrom(_, _)
SplitFrom(key, curPos) ==
    LET nextPos == StrFind(key, lSep, curPos)
    IN IF nextPos = 0
       THEN <<SubSeq(key, curPos, Len(key))>>
       ELSE <<SubSeq(key, curPos, nextPos - 1)>> \o SplitFrom(key, nextPos + Len(lSep))

\* WildcardTrie::splitToLevels
splitToLevels(key) == SplitFrom(key, 1)

Prefix(levels, i) == SubSeq(levels, 1, i)

\* node->childs: the paths of the children of the node at `path`.
Childs(trie, path) ==
    {q \in DOMAIN trie : Len(q) = Len(path) + 1 /\ Prefix(q, Len(path)) = path}

\* WildcardTrie::operator[]: nodes are created along the path, the last one
\* becomes a leaf and keeps whatever value it had.
WildcardTrie_upsert(trie, key) ==
    LET levels == splitToLevels(key)
        path == {Prefix(levels, i) : i \in 1..Len(levels)}
    IN [p \in DOMAIN trie \cup path |->
           LET node == IF p \in DOMAIN trie THEN trie[p] ELSE NewNode
           IN IF p = levels THEN [node EXCEPT !.isLeaf = TRUE] ELSE node]

\* WildcardTrie::insert
WildcardTrie_insert(trie, key, value) ==
    [WildcardTrie_upsert(trie, key) EXCEPT ![splitToLevels(key)].value = value]

\* The trie without the subtree rooted at `path` (childs.erase of a unique_ptr).
EraseSubtree(trie, path) ==
    [p \in {q \in DOMAIN trie : ~(Len(q) >= Len(path) /\ Prefix(q, Len(path)) = path)}
        |-> trie[p]]

\* The ancestor-pruning loop of remove, from index i (0-based, as in the code) down.
RECURSIVE PruneFrom(_, _, _)
PruneFrom(trie, levels, i) ==
    IF i < 0 THEN trie
    ELSE LET node == Prefix(levels, i)
         IN IF trie[node].isLeaf \/ Cardinality(Childs(trie, node)) > 1 \/ node = <<>>
            THEN EraseSubtree(trie, Prefix(levels, i + 1))
            ELSE PruneFrom(trie, levels, i - 1)

\* A faulty remove: the node stops being a leaf and no ancestor is pruned.
WildcardTrie_remove_noPrune(trie, key) ==
    LET levels == splitToLevels(key)
    IN IF levels \notin DOMAIN trie \/ ~trie[levels].isLeaf
       THEN [ret |-> FALSE, trie |-> trie]
       ELSE [ret |-> TRUE, trie |-> [trie EXCEPT ![levels].isLeaf = FALSE]]

\* WildcardTrie::remove: the result and the trie after the call.
WildcardTrie_remove(trie, key) ==
    LET levels == splitToLevels(key)
    IN IF levels \notin DOMAIN trie \/ ~trie[levels].isLeaf
       THEN [ret |-> FALSE, trie |-> trie]
       ELSE LET t1 == [trie EXCEPT ![levels].isLeaf = FALSE]
            IN [ret |-> TRUE,
                trie |-> IF Childs(t1, levels) = {}
                         THEN PruneFrom(t1, levels, Len(levels) - 1)
                         ELSE t1]

\* The key string that find and forEach build for a node while descending:
\* childKey = nodeKey == "" ? childLevel : nodeKey + m_lSep + childLevel.
RECURSIVE NodeKey(_)
NodeKey(path) ==
    IF path = <<>> THEN <<>>
    ELSE LET nodeKey == NodeKey(Prefix(path, Len(path) - 1))
             childLevel == path[Len(path)]
         IN IF nodeKey = <<>> THEN childLevel ELSE nodeKey \o lSep \o childLevel

\* One round of the BFS of find over the nodes at depth d: `frontier` holds
\* the paths queued at that depth, `values` the matches inserted so far
\* (unordered_map::insert keeps the entry already present).
RECURSIVE FindBFS(_, _, _, _)
FindBFS(trie, levels, frontier, values) ==
    IF frontier = {} THEN values
    ELSE LET exact == {p \in frontier : Len(p) = Len(levels) /\ trie[p].isLeaf}
             inner == {p \in frontier : Len(p) < Len(levels)}
             next == UNION {{c \in Childs(trie, p) :
                               \/ c[Len(c)] = levels[Len(p) + 1]
                               \/ c[Len(c)] = lSingleWild} : p \in inner}
             multi == UNION {{c \in Childs(trie, p) :
                               /\ c[Len(c)] # levels[Len(p) + 1]
                               /\ c[Len(c)] # lSingleWild
                               /\ c[Len(c)] = lMultiWild
                               /\ trie[c].isLeaf} : p \in inner}
             found == exact \cup multi
             newKeys == {NodeKey(p) : p \in found} \ DOMAIN values
             v2 == [k \in DOMAIN values \cup newKeys |->
                       IF k \in DOMAIN values THEN values[k]
                       ELSE trie[CHOOSE p \in found : NodeKey(p) = k].value]
         IN FindBFS(trie, levels, next, v2)

\* WildcardTrie::find: matched key string -> value.
WildcardTrie_find(trie, key) == FindBFS(trie, splitToLevels(key), {<<>>}, <<>>)

\* WildcardTrie::forEach: the (key, value) pairs the function is called with.
WildcardTrie_forEach(trie) ==
    {<<NodeKey(p), trie[p].value>> : p \in {q \in DOMAIN trie : trie[q].isLeaf}}

\* WildcardTrie::clear
WildcardTrie_clear(trie) == EmptyTrie

\* WildcardTrie::empty: m_root.childs.empty()
WildcardTrie_empty(trie) == Childs(trie, <<>>) = {}

----------------------------------------------------------------------------
(* Client: data *)

NoAddr == ""
GwAddr == "gw2"
Users == {"u1"}

\* ClientConfig::gwDscv defaults, and the "unknown" preference (INT16_MIN)
\* that LocalPeer::pref and LocalMsg::pref start with.
trigMsgsFailCnt == 5
trigTimeSyncNoRespCnt == 2
PREF_UNKNOWN == -32768
MSG_RSSI_UNKNOWN == -32768
RSSI_UNKNOWN == -32768

NoGw == [addr |-> NoAddr, tsDiff |-> 0, channel |-> 0]
NoMsg == [type |-> "NONE", addr |-> NoAddr, tsDiff |-> 0, pref |-> PREF_UNKNOWN,
          rssi |-> MSG_RSSI_UNKNOWN]

\* steady_clock::now() + tsDiff in time units, stored into a uint16_t.
NowUnits(steady, tsDiff) == ToU16(steady + tsDiff)

\* INode::getMsgId: the counter after the post-increment.
getMsgId(msgId) == ToU16(msgId + 1)

\* Client::prepareMsg: the fields it fills in.
prepareMsg(gw, msgId, steady, broadcast) ==
    [addr |-> IF broadcast THEN NoAddr ELSE gw.addr,
     id |-> msgId,
     ts |-> NowUnits(steady, gw.tsDiff),
     nodeType |-> "CLIENT"]

\* PendingMsg{msg, broadcast}: req is a reference to the caller's LocalMsg.
PendingMsg(type, addr, broadcast) ==
    [req |-> [type |-> type, addr |-> addr], broadcast |-> broadcast,
     respPromise |-> FALSE, resps |-> <<>>]

\* m_pendingMsgs.erase(id)
MapErase(f, k) == [x \in DOMAIN f \ {k} |-> f[x]]

Idle == [pc |-> "idle"]

\* Positions of a calling thread between the insert of its request into
\* m_pendingMsgs and the return of the operation; its LocalMsg lives that long.
InFlightPcs == {"send", "wait", "timedout", "ready", "window", "account", "finish"}

\* The calls that have the request id in flight.
UsrInFlight(id) == {t \in DOMAIN usr : usr[t].pc \in InFlightPcs /\ usr[t].id = id}

\* The LocalMsg that the pending entry of id refers to still exists: the
\* caller's message, or respMsg of recvLocalSubData.
ReqAlive(id) ==
    \/ UsrInFlight(id) # {}
    \/ rcv.pc \in {"ack_send", "deliver"} /\ rcv.ackId = id

\* What a read of a PendingMsg::req whose LocalMsg is gone may yield.
DanglingReqs ==
    {[type |-> "PUB_SUB_UNSUB", addr |-> GwAddr], [type |-> "PROBE_REQ", addr |-> GwAddr],
     [type |-> "OK", addr |-> NoAddr]}

----------------------------------------------------------------------------
(* Client: receive path *)

ValidRespPair(respType, reqType) ==
    \/ respType = "OK" /\ reqType = "PUB_SUB_UNSUB"
    \/ respType = "FAIL" /\ reqType = "PROBE_REQ"
    \/ respType = "FAIL" /\ reqType = "PUB_SUB_UNSUB"
    \/ respType = "PROBE_RES" /\ reqType = "PROBE_REQ"

\* A faulty recvLocalResp: the timestamp is checked before the id, so a
\* response with an invalid timestamp leaves no id in the cache.
recvLocalResp_tsFirst(msg, req, cache, tickNum, maxAge, gw, ignoreTs, pending, steady) ==
    LET ins == LocalMsgIdCache_insert(cache, tickNum, maxAge, msg.addr, msg.id)
        same == [cache |-> ins.cache, pending |-> pending]
    IN IF ~ignoreTs /\ ~validateMsgTimestamp(msg.ts, NowUnits(steady, gw.tsDiff), maxAge)
       THEN [ret |-> "MSG_INVALID_TS", cache |-> cache, pending |-> pending]
       ELSE IF ~ins.ret
       THEN [ret |-> "MSG_DUP_ID", cache |-> cache, pending |-> pending]
       ELSE IF msg.reqId \notin DOMAIN pending
       THEN [ret |-> "NOT_FOUND"] @@ same
       ELSE LET pendingMsg == pending[msg.reqId]
            IN IF ~pendingMsg.broadcast /\ req.addr # msg.addr
               THEN [ret |-> "MSG_UNKNOWN_SENDER"] @@ same
               ELSE IF ValidRespPair(msg.type, req.type)
               THEN [ret |-> IF ~pendingMsg.broadcast /\ pendingMsg.respPromise
                             THEN "FUTURE_ERROR" ELSE "SUCCESS",
                     cache |-> ins.cache,
                     pending |-> [pending EXCEPT ![msg.reqId] =
                                    [@ EXCEPT !.resps = Append(@, [type |-> msg.type,
                                                                    addr |-> msg.addr,
                                                                    tsDiff |-> msg.tsDiff,
                                                                    pref |-> msg.pref,
                                                                    rssi |-> msg.rssi]),
                                              !.respPromise = @ \/ ~pendingMsg.broadcast]]]
               ELSE [ret |-> "INVALID_ARG"] @@ same

\* Client::recvLocalResp, one critical section of m_mutex.  `req` is what the
\* read of pendingMsg.req yields.  std::promise::set_value on a promise that
\* is already satisfied throws std::future_error, after the push_back.
recvLocalResp(msg, req, cache, tickNum, maxAge, gw, ignoreTs, pending, steady) ==
    LET ins == LocalMsgIdCache_insert(cache, tickNum, maxAge, msg.addr, msg.id)
        same == [cache |-> ins.cache, pending |-> pending]
    IN IF ~ins.ret
       THEN [ret |-> "MSG_DUP_ID", cache |-> cache, pending |-> pending]
       ELSE IF ~ignoreTs /\ ~validateMsgTimestamp(msg.ts, NowUnits(steady, gw.tsDiff), maxAge)
       THEN [ret |-> "MSG_INVALID_TS"] @@ same
       ELSE IF msg.reqId \notin DOMAIN pending
       THEN [ret |-> "NOT_FOUND"] @@ same
       ELSE LET pendingMsg == pending[msg.reqId]
            IN IF ~pendingMsg.broadcast /\ req.addr # msg.addr
               THEN [ret |-> "MSG_UNKNOWN_SENDER"] @@ same
               ELSE IF ValidRespPair(msg.type, req.type)
               THEN [ret |-> IF ~pendingMsg.broadcast /\ pendingMsg.respPromise
                             THEN "FUTURE_ERROR" ELSE "SUCCESS",
                     cache |-> ins.cache,
                     pending |-> [pending EXCEPT ![msg.reqId] =
                                    [@ EXCEPT !.resps = Append(@, [type |-> msg.type,
                                                                    addr |-> msg.addr,
                                                                    tsDiff |-> msg.tsDiff,
                                                                    pref |-> msg.pref,
                                                                    rssi |-> msg.rssi]),
                                              !.respPromise = @ \/ ~pendingMsg.broadcast]]]
               ELSE [ret |-> "INVALID_ARG"] @@ same

\* The validation at the head of Client::recvLocalSubData (one critical section).
recvLocalSubDataValidate(msg, cache, tickNum, maxAge, gw, steady) ==
    LET ins == LocalMsgIdCache_insert(cache, tickNum, maxAge, msg.addr, msg.id)
        msgIdValid == ins.ret
        msgTsValid == validateMsgTimestamp(msg.ts, NowUnits(steady, gw.tsDiff), maxAge)
        senderValid == msg.addr = gw.addr
    IN [ret |-> IF ~msgIdValid THEN "MSG_DUP_ID"
                ELSE IF ~msgTsValid THEN "MSG_INVALID_TS"
                ELSE IF ~senderValid THEN "MSG_UNKNOWN_SENDER"
                ELSE "SUCCESS",
        cache |-> ins.cache]

\* A faulty recvLocal: the node type is not checked.
recvLocalDispatch_anyNode(msg) ==
    IF msg.type \in {"OK", "FAIL", "PROBE_RES"} THEN "resp"
    ELSE IF msg.type = "SUB_DATA" THEN "subdata"
    ELSE "INVALID_ARG"

\* Client::recvLocal: the node-type check and the dispatch on the message type.
recvLocalDispatch(msg) ==
    IF msg.nodeType # "GATEWAY" /\ msg.nodeType # "RELAY" THEN "INVALID_ARG"
    ELSE IF msg.type \in {"OK", "FAIL", "PROBE_RES"} THEN "resp"
    ELSE IF msg.type = "SUB_DATA" THEN "subdata"
    ELSE "INVALID_ARG"

----------------------------------------------------------------------------
(* Client: the local layer's receive thread *)

\* Ticks counted up to maxAge + 1, where the entry must be gone.
Aged(s, maxAge) == IF s = -1 \/ s > maxAge THEN s ELSE s + 1

NoRecv == [kind |-> "none"]
NoAcc == [set |-> FALSE]
RcvIdle == [pc |-> "idle"]

\* The in-flight request (inserted and not yet returned) that reqId names.
InFlightReq(reqId) ==
    IF UsrInFlight(reqId) # {}
    THEN LET t == CHOOSE x \in UsrInFlight(reqId) : TRUE
         IN [inFlight |-> TRUE, type |-> usr[t].type, addr |-> usr[t].dest,
             broadcast |-> usr[t].broadcast]
    ELSE IF rcv.pc = "ack_send" /\ rcv.ackId = reqId
    THEN [inFlight |-> TRUE, type |-> "OK", addr |-> rcv.dest, broadcast |-> FALSE]
    ELSE [inFlight |-> FALSE, type |-> "NONE", addr |-> NoAddr, broadcast |-> FALSE]

\* History of (addr, id): a message that arrives outside the window of an
\* earlier one opens a new window.
Seen(addr, id) ==
    IF sinceIns[addr][id] = -1 \/ sinceIns[addr][id] > m_maxAge
    THEN [sinceIns EXCEPT ![addr][id] = 0]
    ELSE sinceIns

InWindow(addr, id) == sinceIns[addr][id] >= 0 /\ sinceIns[addr][id] <= m_maxAge

\* The message is the accepted SUB_DATA message being tracked, delivered again.
IsRedelivery(msg) ==
    /\ acc.set
    /\ msg.type = "SUB_DATA" /\ msg.nodeType = "GATEWAY"
    /\ msg.addr = acc.addr /\ msg.id = acc.id /\ msg.ts = acc.ts

\* recv of a message that Client::recvLocal rejects before any validation.
RecvInvalid(msg) ==
    /\ recvLocalDispatch(msg) = "INVALID_ARG"
    /\ lastRecv' = [kind |-> "invalid", ret |-> "INVALID_ARG",
                    nodeType |-> msg.nodeType, type |-> msg.type]
    /\ UNCHANGED <<extVars, cacheVars, cacheHist, fnVars, clientVars, clockVars, threadVars,
                   reqCount, accepted, acc>>

\* The message is the rejected response being tracked, delivered again.
IsRedeliveredResp(msg) == acc.set /\ "resp" \in DOMAIN acc /\ acc.resp = msg

\* recv of a response: Client::recvLocal and Client::recvLocalResp.  `track`
\* chooses whether history follows this message, the first one rejected.
RecvRespTrack(msg, track) ==
    /\ recvLocalDispatch(msg) = "resp"
    /\ \E req \in IF msg.reqId \in DOMAIN m_pendingMsgs
                  THEN IF ReqAlive(msg.reqId) THEN {m_pendingMsgs[msg.reqId].req}
                       ELSE DanglingReqs
                  ELSE {NoMsg} :
         LET r == recvLocalResp(msg, req, m_cache, m_tickNum, m_maxAge, m_gw,
                                m_ignoreInvalidMsgTs, m_pendingMsgs, steadyUnits)
             f == InFlightReq(msg.reqId)
             stored == r.pending # m_pendingMsgs
             waiters == {t \in UsrInFlight(msg.reqId) : usr[t].pc \in {"send", "wait"}}
         IN /\ m_cache' = r.cache
            /\ m_pendingMsgs' = r.pending
            /\ sinceIns' = Seen(msg.addr, msg.id)
            /\ accepted' = IF r.ret = "SUCCESS" THEN accepted \cup {msg.reqId} ELSE accepted
            /\ usr' = [t \in DOMAIN usr |->
                         IF t \in waiters /\ r.ret = "SUCCESS" /\ usr[t].got.type = "NONE"
                         THEN [usr[t] EXCEPT !.got = [type |-> msg.type, addr |-> msg.addr]]
                         ELSE usr[t]]
            /\ lastRecv' = [kind |-> "resp", ret |-> r.ret,
                            inWindow |-> InWindow(msg.addr, msg.id),
                            stored |-> stored,
                            completed |-> (stored /\ r.pending[msg.reqId].respPromise
                                                  /\ ~m_pendingMsgs[msg.reqId].respPromise),
                            inFlight |-> f.inFlight,
                            pairOk |-> ValidRespPair(msg.type, f.type),
                            addrOk |-> (f.broadcast \/ f.addr = msg.addr),
                            priorAcc |-> (msg.reqId \in accepted /\ ~f.broadcast),
                            found |-> (msg.reqId \in DOMAIN m_pendingMsgs),
                            tsOk |-> (m_ignoreInvalidMsgTs
                                      \/ validateMsgTimestamp(msg.ts,
                                            NowUnits(steadyUnits, m_gw.tsDiff), m_maxAge)),
                            redeliv |-> IsRedeliveredResp(msg),
                            first |-> IF IsRedeliveredResp(msg) THEN acc.ret ELSE "NONE",
                            nodeType |-> msg.nodeType, type |-> msg.type,
                            reqType |-> f.type,
                            tsValid |-> validateMsgTimestamp(msg.ts,
                                            NowUnits(steadyUnits, m_gw.tsDiff), m_maxAge)]
            /\ track => ~acc.set /\ r.ret \notin {"SUCCESS", "FUTURE_ERROR", "MSG_DUP_ID"}
            /\ acc' = IF track
                      THEN [set |-> TRUE, addr |-> msg.addr, id |-> msg.id, ts |-> msg.ts,
                            at |-> steadyUnits, resp |-> msg, ret |-> r.ret]
                      ELSE acc
            /\ UNCHANGED <<extVars, m_tickNum, m_maxAge, ticksDone, lastIns, fnVars, m_gw, m_subDB,
                           m_msgId, m_msgsFailCnt, m_timeSyncNoRespCnt, m_ignoreInvalidMsgTs,
                           dscvSyncMutex, gwWdNotified, clockVars, rcv, reqCount>>

RecvResp(msg) == RecvRespTrack(msg, FALSE)

\* recv of SUB_DATA: Client::recvLocal and the validation of
\* Client::recvLocalSubData.  `track` chooses whether history follows this message.
RecvSubData(msg, track) ==
    /\ recvLocalDispatch(msg) = "subdata"
    /\ rcv.pc = "idle"
    /\ LET r == recvLocalSubDataValidate(msg, m_cache, m_tickNum, m_maxAge, m_gw, steadyUnits)
           flags == [inWindow |-> InWindow(msg.addr, msg.id),
                     redeliv |-> IsRedelivery(msg),
                     elapsed |-> IF IsRedelivery(msg) THEN steadyUnits - acc.at ELSE 0,
                     tsOk |-> validateMsgTimestamp(msg.ts, NowUnits(steadyUnits, m_gw.tsDiff),
                                                   m_maxAge),
                     fromGw |-> (msg.addr = m_gw.addr),
                     gw |-> m_gw.addr,
                     nodeType |-> msg.nodeType, type |-> msg.type]
       IN /\ m_cache' = r.cache
          /\ sinceIns' = Seen(msg.addr, msg.id)
          /\ IF r.ret = "SUCCESS"
             THEN /\ rcv' = [pc |-> "ack_prepare", subsData |-> msg.subsData, flags |-> flags,
                             ackId |-> -1, dest |-> NoAddr, acked |-> FALSE, cbs |-> 0]
                  /\ lastRecv' = NoRecv
                  /\ acc' = IF track
                            THEN [set |-> TRUE, addr |-> msg.addr, id |-> msg.id,
                                  ts |-> msg.ts, at |-> steadyUnits]
                            ELSE acc
             ELSE /\ rcv' = rcv
                  /\ lastRecv' = [kind |-> "subdata", ret |-> r.ret, acked |-> FALSE,
                                  ackDest |-> NoAddr, cbs |-> 0, topics |-> <<>>,
                                  calls |-> <<>>] @@ flags
                  /\ ~track
                  /\ acc' = acc
    /\ UNCHANGED <<extVars, m_tickNum, m_maxAge, ticksDone, lastIns, fnVars, clientVars, clockVars,
                   usr, reqCount, accepted>>

\* m_pendingMsgs.insert: an entry already present under the id is kept.
MapInsert(f, k, v) == IF k \in DOMAIN f THEN f ELSE MapPut(f, k, v)

\* recvLocalSubData's acknowledgment, sendLocalUnchecked(respMsg, respMsg, true):
\* the critical section that prepares the message and inserts the pending entry.
AckPrepare ==
    /\ rcv.pc = "ack_prepare"
    /\ LET pm == prepareMsg(m_gw, m_msgId, steadyUnits, FALSE)
       IN /\ m_msgId' = getMsgId(m_msgId)
          /\ reqCount' = reqCount + 1
          /\ IF pm.addr = NoAddr
             THEN /\ rcv' = [rcv EXCEPT !.pc = "deliver"]
                  /\ m_pendingMsgs' = m_pendingMsgs
             ELSE /\ rcv' = [rcv EXCEPT !.pc = "ack_send", !.ackId = pm.id, !.dest = pm.addr]
                  /\ m_pendingMsgs' = MapInsert(m_pendingMsgs, pm.id,
                                                PendingMsg("OK", pm.addr, FALSE))
    /\ lastRecv' = NoRecv
    /\ UNCHANGED <<extVars, cacheVars, cacheHist, fnVars, m_gw, m_subDB, m_msgsFailCnt,
                   m_timeSyncNoRespCnt, m_ignoreInvalidMsgTs, dscvSyncMutex, gwWdNotified,
                   clockVars, usr, accepted, acc>>

\* ... m_ll->send(msg) of the acknowledgment; with noResp the call returns at
\* once, whatever send returned, and the pending entry stays in the table.
AckSend(sendRet) ==
    /\ rcv.pc = "ack_send"
    /\ rcv' = [rcv EXCEPT !.pc = "deliver", !.acked = TRUE]
    /\ lastRecv' = NoRecv
    /\ UNCHANGED <<extVars, cacheVars, cacheHist, fnVars, clientVars, clockVars, usr,
                   reqCount, accepted, acc>>

\* The number of entries of a sequence of maps.
RECURSIVE CountEntries(_)
CountEntries(maps) ==
    IF maps = <<>> THEN 0
    ELSE Cardinality(DOMAIN Head(maps)) + CountEntries(Tail(maps))

\* The callback loop of recvLocalSubData and its return: for each SubData the
\* entries that m_subDB.find returns, each of whose callbacks is called once.
Deliver ==
    /\ rcv.pc = "deliver"
    /\ LET calls == [i \in 1..Len(rcv.subsData) |->
                        WildcardTrie_find(m_subDB, rcv.subsData[i].topic)]
       IN lastRecv' = [kind |-> "subdata", ret |-> "SUCCESS", acked |-> rcv.acked,
                       ackDest |-> rcv.dest, cbs |-> CountEntries(calls),
                       topics |-> [i \in 1..Len(rcv.subsData) |-> rcv.subsData[i].topic],
                       calls |-> calls] @@ rcv.flags
    /\ rcv' = RcvIdle
    /\ UNCHANGED <<extVars, cacheVars, cacheHist, fnVars, clientVars, clockVars, usr,
                   reqCount, accepted, acc>>

----------------------------------------------------------------------------
(* Client: the calling threads *)

NoGot == [type |-> "NONE", addr |-> NoAddr]

\* The locals of discoverGateway: bestGw before any response, and the
\* counters at the start of the call; `seen`, `waits`, `scans`, `logStart`
\* and `logEnd` are history (the responses collected in the current attempt
\* with their channels, the delays slept, the attempts started, the length of
\* scanLog when m_dscvSyncMutex was taken and when it was released).
NoBest == [addr |-> NoAddr, channel |-> 0, pref |-> PREF_UNKNOWN, tsDiff |-> 0]
NoDscv == [maxAttempts |-> 0, attemptsCnt |-> 0, delay |-> 0, chIdx |-> 0,
           bestGw |-> NoBest, seen |-> <<>>, waits |-> <<>>, scans |-> 0,
           logStart |-> 0, logEnd |-> 0]

\* The gateway's tsDiff and the two failure counters as a call found them.
NoBefore == [tsDiff |-> 0, msgsFailCnt |-> 0, timeSyncNoRespCnt |-> 0]

\* What a call handed to settimeofday, in milliseconds, and the steady clock
\* it read for it: nothing yet.
NoSysTime == [set |-> FALSE, ms |-> 0, steady |-> 0]

\* The locals of a call at its start.
NewCall(op, type, broadcast, pubs, subs, unsubs) ==
    [pc |-> "prepare", op |-> op, type |-> type, broadcast |-> broadcast,
     pubs |-> pubs, subs |-> subs, unsubs |-> unsubs, snapshot |-> {},
     id |-> -1, dest |-> NoAddr, gw |-> NoAddr, sendRet |-> "NOT_CALLED", got |-> NoGot,
     resp |-> NoMsg, resps |-> <<>>, err |-> "NONE", ret |-> "NONE",
     dbBefore |-> m_subDB, before |-> NoBefore, dscv |-> NoDscv, sysTime |-> NoSysTime]

Returned(call, ret) == [call EXCEPT !.pc = "done", !.ret = ret]

\* Variables that no step of a calling thread touches.
callerFrame == <<cacheVars, cacheHist, fnVars, clockVars, rcv, accepted, acc, fixedVars>>

\* Client::pubSubUnsubBulk up to the call of sendLocal.
CallPubSubUnsubBulk(t, pubs, subs, unsubs) ==
    /\ usr[t].pc = "idle"
    /\ reqCount < MaxReqs
    /\ LET call == NewCall("pubSubUnsubBulk", "PUB_SUB_UNSUB", FALSE, pubs, subs, unsubs)
       IN usr' = [usr EXCEPT ![t] =
                    IF Len(pubs) = 0 /\ Len(subs) = 0 /\ Len(unsubs) = 0
                    THEN Returned(call, "SUCCESS") ELSE call]
    /\ lastRecv' = NoRecv
    /\ UNCHANGED <<callerFrame, siteVars, clientVars, reqCount>>

\* A faulty start of unsubscribeAll and resubscribeAll: the request is sent
\* even when no topic was collected.
CallAll_sends(t, op) ==
    /\ usr[t].pc = "idle"
    /\ reqCount < MaxReqs
    /\ LET topics == {kv[1] : kv \in WildcardTrie_forEach(m_subDB)}
       IN usr' = [usr EXCEPT ![t] =
                    [NewCall(op, "PUB_SUB_UNSUB", FALSE, <<>>, <<>>, <<>>)
                        EXCEPT !.snapshot = topics]]
    /\ lastRecv' = NoRecv
    /\ UNCHANGED <<callerFrame, siteVars, clientVars, reqCount>>

\* Client::unsubscribeAll and Client::resubscribeAll up to the call of
\* sendLocal: the topics are collected from the database under m_mutex.
CallAll(t, op) ==
    /\ usr[t].pc = "idle"
    /\ reqCount < MaxReqs
    /\ LET topics == {kv[1] : kv \in WildcardTrie_forEach(m_subDB)}
           call == [NewCall(op, "PUB_SUB_UNSUB", FALSE, <<>>, <<>>, <<>>)
                       EXCEPT !.snapshot = topics]
       IN usr' = [usr EXCEPT ![t] =
                    IF topics = {} THEN Returned(call, "SUCCESS") ELSE call]
    /\ lastRecv' = NoRecv
    /\ UNCHANGED <<callerFrame, siteVars, clientVars, reqCount>>

CallUnsubscribeAll(t) == CallAll(t, "unsubscribeAll")
CallResubscribeAll(t) == CallAll(t, "resubscribeAll")

\* A faulty lock: it is granted whoever holds the mutex.
Lockable_always(mutex) == TRUE

\* std::scoped_lock on a mutex can proceed.
Lockable(mutex) == mutex = "free"

\* m_gwWdCv.notify_one(): wakes the watchdog thread if it is blocked in wait.
Notified(wd) == IF wd = "wait" THEN "woken" ELSE wd

\* Client::syncTime: takes m_dscvSyncMutex and probes the gateway.
SyncTimeBegin(t) ==
    /\ usr[t].pc = "idle"
    /\ Lockable(dscvSyncMutex)
    /\ dscvSyncMutex' = t
    /\ usr' = [usr EXCEPT ![t] =
                 [NewCall("syncTime", "PROBE_REQ", FALSE, <<>>, <<>>, <<>>)
                     EXCEPT !.dscv.logStart = Len(scanLog),
                            !.before = [tsDiff |-> m_gw.tsDiff,
                                        msgsFailCnt |-> m_msgsFailCnt,
                                        timeSyncNoRespCnt |-> m_timeSyncNoRespCnt]]]
    /\ lastRecv' = NoRecv
    /\ UNCHANGED <<callerFrame, llChannel, scanLog, m_gw, m_pendingMsgs, m_subDB, m_msgId,
                   m_msgsFailCnt, m_timeSyncNoRespCnt, m_ignoreInvalidMsgTs, gwWdNotified,
                   reqCount>>

\* syncTime called by the application or by m_timeSyncTimer.
CallSyncTime(t) ==
    /\ reqCount < MaxReqs
    /\ SyncTimeBegin(t)
    /\ UNCHANGED <<m_gwWdThread, ctor>>

\* Client::discoverGateway(maxAttempts) up to its loop.
DiscoverGatewayBegin(t, maxAttempts) ==
    /\ usr[t].pc = "idle"
    /\ usr' = [usr EXCEPT ![t] =
                 [NewCall("discoverGateway", "PROBE_REQ", TRUE, <<>>, <<>>, <<>>)
                     EXCEPT !.pc = "dscv_loop",
                            !.dscv = [NoDscv EXCEPT !.maxAttempts = maxAttempts,
                                                    !.delay = m_conf.dscvMinDelay]]]
    /\ lastRecv' = NoRecv
    /\ UNCHANGED <<callerFrame, llChannel, scanLog, m_gw, m_pendingMsgs, m_subDB, m_msgId,
                   m_msgsFailCnt, m_timeSyncNoRespCnt, m_ignoreInvalidMsgTs, dscvSyncMutex,
                   reqCount>>

\* discoverGateway called by the application.
CallDiscoverGateway(t, maxAttempts) ==
    /\ reqCount < MaxReqs
    /\ DiscoverGatewayBegin(t, maxAttempts)
    /\ UNCHANGED <<m_gwWdThread, ctor, gwWdNotified>>

\* The locals of a call when a probe is about to be broadcast: the vector of
\* responses of processGatewayDiscoveryResponses is new for each probe.
ProbeStart(call) ==
    [call EXCEPT !.pc = "prepare", !.resps = <<>>, !.sendRet = "NOT_CALLED",
                 !.err = "NONE", !.got = NoGot]

\* The loop condition of discoverGateway and the start of an attempt: takes
\* m_dscvSyncMutex and sets m_ignoreInvalidMsgTs.
DscvLoop(t) ==
    /\ usr[t].pc = "dscv_loop"
    /\ LET d == usr[t].dscv
       IN IF d.attemptsCnt < d.maxAttempts \/ d.maxAttempts = 0
          THEN /\ Lockable(dscvSyncMutex)
               /\ dscvSyncMutex' = t
               /\ m_ignoreInvalidMsgTs' = TRUE
               /\ usr' = [usr EXCEPT ![t] =
                            IF channels = <<>>
                            THEN [ProbeStart(@) EXCEPT !.dscv.chIdx = 0,
                                                       !.dscv.seen = <<>>,
                                                       !.dscv.scans = @ + 1,
                                                       !.dscv.logStart = Len(scanLog)]
                            ELSE [@ EXCEPT !.pc = "dscv_channel", !.dscv.chIdx = 1,
                                           !.dscv.seen = <<>>, !.dscv.scans = @ + 1,
                                           !.dscv.logStart = Len(scanLog)]]
          ELSE /\ usr' = [usr EXCEPT ![t] = Returned(@, "TOO_MANY_FAILED_ATTEMPTS")]
               /\ UNCHANGED <<dscvSyncMutex, m_ignoreInvalidMsgTs>>
    /\ lastRecv' = NoRecv
    /\ UNCHANGED <<callerFrame, siteVars, m_gw, m_pendingMsgs, m_subDB, m_msgId,
                   m_msgsFailCnt, m_timeSyncNoRespCnt, gwWdNotified, reqCount>>

\* m_ll->setChannel(ch) for the next channel of the scan; a channel that
\* cannot be set is skipped.
DscvSetChannel(t, ret) ==
    /\ usr[t].pc = "dscv_channel"
    /\ LET d == usr[t].dscv
           ch == channels[d.chIdx]
       IN /\ scanLog' = Append(scanLog, [t |-> t, op |-> "setChannel", ch |-> ch,
                                          ret |-> ret])
          /\ llChannel' = IF ret = "SUCCESS" THEN ch ELSE llChannel
          /\ usr' = [usr EXCEPT ![t] =
                       IF ret = "SUCCESS" THEN ProbeStart(@)
                       ELSE IF d.chIdx < Len(channels)
                       THEN [@ EXCEPT !.dscv.chIdx = @ + 1]
                       ELSE [@ EXCEPT !.pc = "dscv_decide"]]
    /\ lastRecv' = NoRecv
    /\ UNCHANGED <<callerFrame, m_gwWdThread, ctor, clientVars, reqCount>>

\* The first critical section of sendLocalUnchecked and of
\* sendLocalUncheckedBroadcast: prepareMsg and the insert into m_pendingMsgs.
SendPrepare(t) ==
    /\ usr[t].pc = "prepare"
    /\ LET pm == prepareMsg(m_gw, m_msgId, steadyUnits, usr[t].broadcast)
           noGw == ~usr[t].broadcast /\ pm.addr = NoAddr
       IN /\ m_msgId' = getMsgId(m_msgId)
          /\ reqCount' = reqCount + 1
          /\ m_pendingMsgs' =
                IF noGw THEN m_pendingMsgs
                ELSE MapInsert(m_pendingMsgs, pm.id,
                               PendingMsg(usr[t].type, pm.addr, usr[t].broadcast))
          /\ usr' = [usr EXCEPT ![t] =
                       IF noGw
                       THEN [@ EXCEPT !.pc = "account", !.err = "NO_GATEWAY",
                                      !.gw = m_gw.addr]
                       ELSE [@ EXCEPT !.pc = "send", !.id = pm.id, !.dest = pm.addr,
                                      !.gw = m_gw.addr]]
    /\ lastRecv' = NoRecv
    /\ UNCHANGED <<callerFrame, siteVars, m_gw, m_subDB, m_msgsFailCnt, m_timeSyncNoRespCnt,
                   m_ignoreInvalidMsgTs, dscvSyncMutex, gwWdNotified>>

\* KVIK_RETURN_ERROR(m_ll->send(msg)): a failure returns at once.
SendCall(t, sendRet) ==
    /\ usr[t].pc = "send"
    /\ usr' = [usr EXCEPT ![t] =
                 IF sendRet # "SUCCESS"
                 THEN [@ EXCEPT !.pc = IF usr[t].broadcast THEN "finish" ELSE "account",
                                !.sendRet = sendRet, !.err = sendRet]
                 ELSE [@ EXCEPT !.pc = IF usr[t].broadcast THEN "window" ELSE "wait",
                                !.sendRet = sendRet]]
    /\ scanLog' = IF usr[t].type = "PROBE_REQ"
                  THEN Append(scanLog, [t |-> t,
                                        op |-> IF usr[t].broadcast THEN "probe" ELSE "sync",
                                        ch |-> llChannel, ret |-> sendRet])
                  ELSE scanLog
    /\ lastRecv' = NoRecv
    /\ UNCHANGED <<callerFrame, llChannel, m_gwWdThread, ctor, clientVars, reqCount>>

\* respFuture.wait_for(respTimeout) returns ready.
WaitReady(t) ==
    /\ usr[t].pc = "wait"
    /\ usr[t].id \in DOMAIN m_pendingMsgs
    /\ m_pendingMsgs[usr[t].id].respPromise
    /\ usr' = [usr EXCEPT ![t].pc = "ready"]
    /\ lastRecv' = NoRecv
    /\ UNCHANGED <<callerFrame, siteVars, clientVars, reqCount>>

\* respFuture.wait_for(respTimeout) returns timeout.
WaitTimeout(t) ==
    /\ usr[t].pc = "wait"
    /\ usr[t].id \in DOMAIN m_pendingMsgs
    /\ ~m_pendingMsgs[usr[t].id].respPromise
    /\ usr' = [usr EXCEPT ![t].pc = "timedout"]
    /\ lastRecv' = NoRecv
    /\ UNCHANGED <<callerFrame, siteVars, clientVars, reqCount>>

\* The critical section of sendLocalUnchecked after the wait: on timeout the
\* entry is erased, otherwise the first response is copied out and the entry
\* erased.
SendCollect(t) ==
    /\ usr[t].pc \in {"ready", "timedout"}
    /\ usr' = [usr EXCEPT ![t] =
                 IF usr[t].pc = "timedout"
                 THEN [@ EXCEPT !.pc = "account", !.err = "TIMEOUT"]
                 ELSE [@ EXCEPT !.pc = "account", !.err = "SUCCESS",
                                !.resp = m_pendingMsgs[usr[t].id].resps[1]]]
    /\ m_pendingMsgs' = MapErase(m_pendingMsgs, usr[t].id)
    /\ lastRecv' = NoRecv
    /\ UNCHANGED <<callerFrame, siteVars, m_gw, m_subDB, m_msgId, m_msgsFailCnt, m_timeSyncNoRespCnt,
                   m_ignoreInvalidMsgTs, dscvSyncMutex, gwWdNotified, reqCount>>

\* The critical section of sendLocalUncheckedBroadcast after sleep_for.
BroadcastCollect(t) ==
    /\ usr[t].pc = "window"
    /\ usr' = [usr EXCEPT ![t] =
                 [@ EXCEPT !.pc = "finish", !.err = "SUCCESS",
                           !.resps = m_pendingMsgs[usr[t].id].resps]]
    /\ m_pendingMsgs' = MapErase(m_pendingMsgs, usr[t].id)
    /\ lastRecv' = NoRecv
    /\ UNCHANGED <<callerFrame, siteVars, m_gw, m_subDB, m_msgId, m_msgsFailCnt, m_timeSyncNoRespCnt,
                   m_ignoreInvalidMsgTs, dscvSyncMutex, gwWdNotified, reqCount>>

\* A faulty sendLocal: every failure of sendLocalUnchecked is reported as TIMEOUT.
sendLocal_err_masked(err, respType) ==
    IF err # "SUCCESS" THEN "TIMEOUT"
    ELSE IF respType = "FAIL" THEN "MSG_PROCESSING_FAILED"
    ELSE "SUCCESS"

\* Client::sendLocal after sendLocalUnchecked: the error it returns.
sendLocal_err(err, respType) ==
    IF err # "SUCCESS" THEN err
    ELSE IF respType = "FAIL" THEN "MSG_PROCESSING_FAILED"
    ELSE "SUCCESS"

\* A faulty trigDscv: the watchdog is signalled one failure late.
TrigDscv_late(cnt, trig) == cnt > trig

\* trigDscv of sendLocal and of syncTime.
TrigDscv(cnt, trig) == trig = 0 \/ cnt >= trig

\* Client::sendLocal after sendLocalUnchecked: the failure counter and the
\* watchdog notification.
Account(t) ==
    /\ usr[t].pc = "account"
    /\ LET err == sendLocal_err(usr[t].err, usr[t].resp.type)
           cnt == ToU16(m_msgsFailCnt + 1)
       IN /\ usr' = [usr EXCEPT ![t] = [@ EXCEPT !.pc = "finish", !.err = err]]
          /\ m_msgsFailCnt' = IF err = "SUCCESS" THEN 0 ELSE cnt
          /\ gwWdNotified' = (gwWdNotified \/
                                (err # "SUCCESS" /\ TrigDscv(cnt, m_conf.trigMsgsFailCnt)))
          /\ m_gwWdThread' = IF err # "SUCCESS" /\ TrigDscv(cnt, m_conf.trigMsgsFailCnt)
                             THEN Notified(m_gwWdThread) ELSE m_gwWdThread
    /\ lastRecv' = NoRecv
    /\ UNCHANGED <<callerFrame, llChannel, scanLog, ctor, m_gw, m_pendingMsgs, m_subDB, m_msgId, m_timeSyncNoRespCnt,
                   m_ignoreInvalidMsgTs, dscvSyncMutex, reqCount>>

\* The result of pubSubUnsubBulk, unsubscribeAll and resubscribeAll after
\* sendLocal returned err with response respType.
pubSubUnsub_ret(err, respType) ==
    IF err # "SUCCESS" THEN err
    ELSE IF respType # "OK" THEN "MSG_PROCESSING_FAILED"
    ELSE "SUCCESS"

RECURSIVE RemoveAll(_, _)
RemoveAll(db, unsubs) ==
    IF unsubs = <<>> THEN db
    ELSE RemoveAll(WildcardTrie_remove(db, Head(unsubs)).trie, Tail(unsubs))

RECURSIVE InsertAll(_, _)
InsertAll(db, subs) ==
    IF subs = <<>> THEN db
    ELSE InsertAll(WildcardTrie_insert(db, Head(subs).topic, Head(subs).cb), Tail(subs))

\* A faulty commit: the database is modified whatever the result.
pubSubUnsubBulk_db_eager(db, ret, subs, unsubs) ==
    InsertAll(RemoveAll(db, unsubs), subs)

\* A faulty commit: the subscriptions are inserted before the removals.
pubSubUnsubBulk_db_insertFirst(db, ret, subs, unsubs) ==
    IF ret # "SUCCESS" THEN db
    ELSE RemoveAll(InsertAll(db, subs), unsubs)

\* "Modify local data" of pubSubUnsubBulk: the database after the call.
pubSubUnsubBulk_db(db, ret, subs, unsubs) ==
    IF ret # "SUCCESS" THEN db
    ELSE InsertAll(RemoveAll(db, unsubs), subs)

\* processGatewayDiscoveryResponses: the best gateway among the responses.
RECURSIVE BestGw(_, _, _)
BestGw(resps, bestGw, channel) ==
    IF resps = <<>> THEN bestGw
    ELSE LET resp == Head(resps)
         IN BestGw(Tail(resps),
                   IF resp.pref > bestGw.pref
                   THEN [addr |-> resp.addr, channel |-> channel, pref |-> resp.pref,
                         tsDiff |-> resp.tsDiff]
                   ELSE bestGw,
                   channel)

\* The rest of pubSubUnsubBulk, unsubscribeAll and resubscribeAll.
FinishPubSubUnsub(t) ==
    /\ usr[t].pc = "finish"
    /\ usr[t].op \in {"pubSubUnsubBulk", "unsubscribeAll", "resubscribeAll"}
    /\ LET ret == pubSubUnsub_ret(usr[t].err, usr[t].resp.type)
       IN /\ usr' = [usr EXCEPT ![t] = Returned(@, ret)]
          /\ m_subDB' =
                IF usr[t].op = "pubSubUnsubBulk"
                THEN pubSubUnsubBulk_db(m_subDB, ret, usr[t].subs, usr[t].unsubs)
                ELSE IF usr[t].op = "unsubscribeAll" /\ ret = "SUCCESS"
                THEN WildcardTrie_clear(m_subDB)
                ELSE m_subDB
    /\ lastRecv' = NoRecv
    /\ UNCHANGED <<callerFrame, siteVars, m_gw, m_pendingMsgs, m_msgId, m_msgsFailCnt,
                   m_timeSyncNoRespCnt, m_ignoreInvalidMsgTs, dscvSyncMutex, gwWdNotified,
                   reqCount>>

\* The time syncTime hands to settimeofday: steady_clock::now() + m_gw.tsDiff,
\* computed before the response's tsDiff is stored.
syncTime_sysTime(steady, gwTsDiff, respTsDiff) == steady + gwTsDiff

\* The rest of syncTime: set the system time if configured and store the
\* gateway's tsDiff, or count the failure.
FinishSyncTime(t) ==
    /\ usr[t].pc = "finish"
    /\ usr[t].op = "syncTime"
    /\ LET err == IF usr[t].err # "SUCCESS" THEN usr[t].err
                  ELSE IF usr[t].resp.type # "PROBE_RES" THEN "MSG_PROCESSING_FAILED"
                  ELSE "SUCCESS"
           cnt == ToU16(m_timeSyncNoRespCnt + 1)
           sys == IF err = "SUCCESS" /\ m_conf.syncSystemTime
                  THEN [set |-> TRUE, steady |-> steadyUnits,
                        ms |-> syncTime_sysTime(steadyUnits, m_gw.tsDiff,
                                                usr[t].resp.tsDiff)]
                  ELSE NoSysTime
       IN /\ usr' = [usr EXCEPT ![t] = [Returned(@, err) EXCEPT !.sysTime = sys]]
          /\ m_gw' = IF err = "SUCCESS" THEN [m_gw EXCEPT !.tsDiff = usr[t].resp.tsDiff]
                     ELSE m_gw
          /\ m_timeSyncNoRespCnt' = IF err = "SUCCESS" THEN 0 ELSE cnt
          /\ gwWdNotified' =
                (gwWdNotified \/
                    (err # "SUCCESS" /\ TrigDscv(cnt, m_conf.trigTimeSyncNoRespCnt)))
          /\ m_gwWdThread' =
                IF err # "SUCCESS" /\ TrigDscv(cnt, m_conf.trigTimeSyncNoRespCnt)
                THEN Notified(m_gwWdThread) ELSE m_gwWdThread
    /\ dscvSyncMutex' = "free"
    /\ lastRecv' = NoRecv
    /\ UNCHANGED <<callerFrame, llChannel, scanLog, ctor, m_pendingMsgs, m_subDB, m_msgId, m_msgsFailCnt,
                   m_ignoreInvalidMsgTs, reqCount>>

\* processGatewayDiscoveryResponses after the broadcast, and the step of the
\* scan to the next channel.
FinishDiscoverGateway(t) ==
    /\ usr[t].pc = "finish"
    /\ usr[t].op = "discoverGateway"
    /\ LET d == usr[t].dscv
           ch == IF channels = <<>> THEN 0 ELSE channels[d.chIdx]
           more == channels # <<>> /\ d.chIdx < Len(channels)
           resps == usr[t].resps
       IN usr' = [usr EXCEPT ![t] =
                    [@ EXCEPT !.pc = IF more THEN "dscv_channel" ELSE "dscv_decide",
                              !.dscv.bestGw = BestGw(resps, d.bestGw, ch),
                              !.dscv.seen = @ \o [i \in 1..Len(resps) |->
                                                    [addr |-> resps[i].addr,
                                                     pref |-> resps[i].pref,
                                                     tsDiff |-> resps[i].tsDiff,
                                                     rssi |-> resps[i].rssi,
                                                     channel |-> ch]],
                              !.dscv.chIdx = IF more THEN @ + 1 ELSE @]]
    /\ lastRecv' = NoRecv
    /\ UNCHANGED <<callerFrame, siteVars, clientVars, reqCount>>

\* The end of a discovery attempt: with a best gateway the local layer is set
\* to its channel (the result is not looked at), m_gw and the counters are
\* written and the call returns; without one m_gw is reset.
DscvDecide(t, ret) ==
    /\ usr[t].pc = "dscv_decide"
    /\ LET bestGw == usr[t].dscv.bestGw
           found == bestGw.addr # NoAddr
           setCh == found /\ channels # <<>>
       IN /\ m_gw' = IF found
                     THEN [addr |-> bestGw.addr, tsDiff |-> bestGw.tsDiff,
                           channel |-> bestGw.channel]
                     ELSE NoGw
          /\ m_msgsFailCnt' = IF found THEN 0 ELSE m_msgsFailCnt
          /\ m_timeSyncNoRespCnt' = IF found THEN 0 ELSE m_timeSyncNoRespCnt
          /\ scanLog' = IF setCh
                        THEN Append(scanLog, [t |-> t, op |-> "setChannel",
                                              ch |-> bestGw.channel, ret |-> ret])
                        ELSE scanLog
          /\ llChannel' = IF setCh /\ ret = "SUCCESS" THEN bestGw.channel ELSE llChannel
          /\ usr' = [usr EXCEPT ![t] =
                       [(IF found THEN Returned(@, "SUCCESS")
                         ELSE [@ EXCEPT !.pc = "dscv_wait"])
                           EXCEPT !.dscv.logEnd = Len(scanLog) + IF setCh THEN 1 ELSE 0]]
    /\ m_ignoreInvalidMsgTs' = FALSE
    /\ dscvSyncMutex' = "free"
    /\ lastRecv' = NoRecv
    /\ UNCHANGED <<callerFrame, m_gwWdThread, ctor, m_pendingMsgs, m_subDB, m_msgId,
                   gwWdNotified, reqCount>>

\* A faulty backoff: the delay is doubled without limit.
NextDelay_uncapped(delay, dscvMaxDelay) == 2 * delay

\* "Increase delay" of discoverGateway.
NextDelay(delay, dscvMaxDelay) ==
    IF 2 * delay > dscvMaxDelay THEN dscvMaxDelay ELSE 2 * delay

\* m_dscvLoopCv.wait_for(lock, delay, !m_dscvLoopRun) returns: cancelled by
\* the destructor, or the delay has passed and the next attempt is due.
DscvWait(t) ==
    /\ usr[t].pc = "dscv_wait"
    /\ LET d == usr[t].dscv
       IN IF ~m_dscvLoopRun
          THEN usr' = [usr EXCEPT ![t] = Returned(@, "SUCCESS")]
          ELSE /\ d.maxAttempts = 0 => d.attemptsCnt < MaxAttempts
               /\ usr' = [usr EXCEPT ![t] =
                            [@ EXCEPT !.pc = "dscv_loop",
                                      !.dscv.waits = Append(@, d.delay),
                                      !.dscv.delay = NextDelay(d.delay, m_conf.dscvMaxDelay),
                                      !.dscv.attemptsCnt = @ + 1]]
    /\ lastRecv' = NoRecv
    /\ UNCHANGED <<callerFrame, siteVars, clientVars, reqCount>>

\* The call returns to the application.
Return(t) ==
    /\ usr[t].pc = "done"
    /\ usr' = [usr EXCEPT ![t] = Idle]
    /\ lastRecv' = NoRecv
    /\ UNCHANGED <<callerFrame, siteVars, clientVars, reqCount>>

----------------------------------------------------------------------------
(* Client: constructor, gateway watchdog thread and destructor *)

MainThread == "main"
WdThread == "wd"

\* What the steps of the watchdog thread outside discoverGateway leave alone.
wdFrame == <<callerFrame, llChannel, scanLog, ctor, m_gw, m_pendingMsgs, m_subDB, m_msgId,
             m_msgsFailCnt, m_timeSyncNoRespCnt, m_ignoreInvalidMsgTs, dscvSyncMutex,
             reqCount>>

\* What the steps of the destructor leave alone.
dtorFrame == <<cacheVars, cacheHist, fnVars, clockVars, clientVars, threadVars, reqCount,
               accepted, acc, m_conf, m_mutex, compVars, channels, inserted, llChannel, scanLog,
               ctor>>

\* What the steps of the constructor outside syncTime and discoverGateway
\* leave alone.
ctorFrame == <<callerFrame, m_pendingMsgs, m_subDB, m_msgId, dscvSyncMutex, gwWdNotified,
               reqCount>>

\* Client::Client up to the restored channel: the receive callback is set,
\* timestamps are not validated, retained data with a gateway are restored.
CtorBegin ==
    /\ ctor.pc = "start"
    /\ m_ignoreInvalidMsgTs' = TRUE
    /\ IF ctor.rd.gw.addr # NoAddr
       THEN /\ m_gw' = ctor.rd.gw
            /\ m_msgsFailCnt' = ctor.rd.msgsFailCnt
            /\ m_timeSyncNoRespCnt' = ctor.rd.timeSyncNoRespCnt
            /\ ctor' = [ctor EXCEPT !.pc = IF ctor.rd.gw.channel > 0 THEN "channel"
                                           ELSE "sync"]
       ELSE /\ ctor' = [ctor EXCEPT !.pc = "dscv"]
            /\ UNCHANGED <<m_gw, m_msgsFailCnt, m_timeSyncNoRespCnt>>
    /\ llRecvCb' = "recvLocal"
    /\ lastRecv' = NoRecv
    /\ UNCHANGED <<cacheVars, cacheHist, fnVars, clockVars, rcv, accepted, acc, m_conf, m_mutex,
                   compVars, channels, m_dscvLoopRun, dtor, inserted, m_pendingMsgs, m_subDB,
                   m_msgId, dscvSyncMutex, gwWdNotified, reqCount, usr, llChannel, scanLog,
                   m_gwWdThread>>

\* A faulty constructor: the time sync is attempted whatever setChannel returned.
CtorAfterChannel_ignored(ret) == "sync"

\* channelOk of the constructor: a failed setChannel skips the time sync.
CtorAfterChannel(ret) == IF ret = "SUCCESS" THEN "sync" ELSE "dscv"

\* m_ll->setChannel(m_gw.channel) of the constructor.
CtorSetChannel(ret) ==
    /\ ctor.pc = "channel"
    /\ scanLog' = Append(scanLog, [t |-> MainThread, op |-> "setChannel",
                                   ch |-> m_gw.channel, ret |-> ret])
    /\ llChannel' = IF ret = "SUCCESS" THEN m_gw.channel ELSE llChannel
    /\ ctor' = [ctor EXCEPT !.pc = CtorAfterChannel(ret)]
    /\ lastRecv' = NoRecv
    /\ UNCHANGED <<ctorFrame, usr, m_gw, m_msgsFailCnt, m_timeSyncNoRespCnt,
                   m_ignoreInvalidMsgTs, m_gwWdThread>>

\* The constructor calls syncTime.
CtorSyncTime ==
    /\ ctor.pc = "sync"
    /\ ctor' = [ctor EXCEPT !.pc = "syncing"]
    /\ SyncTimeBegin(MainThread)
    /\ UNCHANGED m_gwWdThread

\* syncTime has returned to the constructor.
CtorSynced ==
    /\ ctor.pc = "syncing"
    /\ usr[MainThread].pc = "done"
    /\ ctor' = [ctor EXCEPT !.pc = IF usr[MainThread].ret = "SUCCESS" THEN "initialized"
                                   ELSE "dscv",
                            !.syncRet = usr[MainThread].ret]
    /\ usr' = [usr EXCEPT ![MainThread] = Idle]
    /\ lastRecv' = NoRecv
    /\ UNCHANGED <<ctorFrame, m_gw, m_msgsFailCnt, m_timeSyncNoRespCnt,
                   m_ignoreInvalidMsgTs, llChannel, scanLog, m_gwWdThread>>

\* The constructor calls discoverGateway(initialDscvFailThres).
CtorDiscover ==
    /\ ctor.pc = "dscv"
    /\ ctor' = [ctor EXCEPT !.pc = "discovering"]
    /\ DiscoverGatewayBegin(MainThread, m_conf.initialDscvFailThres)
    /\ UNCHANGED <<m_gwWdThread, gwWdNotified>>

\* discoverGateway has returned to the constructor, which throws if it failed.
CtorDiscovered ==
    /\ ctor.pc = "discovering"
    /\ usr[MainThread].pc = "done"
    /\ ctor' = [ctor EXCEPT !.pc = IF usr[MainThread].ret = "SUCCESS" THEN "initialized"
                                   ELSE "thrown",
                            !.dscvRet = usr[MainThread].ret]
    /\ usr' = [usr EXCEPT ![MainThread] = Idle]
    /\ lastRecv' = NoRecv
    /\ UNCHANGED <<ctorFrame, m_gw, m_msgsFailCnt, m_timeSyncNoRespCnt,
                   m_ignoreInvalidMsgTs, llChannel, scanLog, m_gwWdThread>>

\* "initialized": timestamps are validated again and the watchdog thread is
\* spawned.
CtorFinish ==
    /\ ctor.pc = "initialized"
    /\ m_ignoreInvalidMsgTs' = FALSE
    /\ m_gwWdThread' = "check"
    /\ ctor' = [ctor EXCEPT !.pc = "done"]
    /\ lastRecv' = NoRecv
    /\ UNCHANGED <<ctorFrame, usr, m_gw, m_msgsFailCnt, m_timeSyncNoRespCnt, llChannel,
                   scanLog>>

\* gwWatchdogHandler: the check of m_dscvLoopRun before the loop.
WdCheck ==
    /\ m_gwWdThread = "check"
    /\ m_gwWdThread' = IF m_dscvLoopRun THEN "loop" ELSE "exited"
    /\ lastRecv' = NoRecv
    /\ UNCHANGED <<wdFrame, usr, gwWdNotified>>

\* The top of the loop: m_gwWdCv.wait(lock) blocks the thread, whatever the
\* value of m_dscvLoopRun.
WdWait ==
    /\ m_gwWdThread = "loop"
    /\ m_gwWdThread' = "wait"
    /\ lastRecv' = NoRecv
    /\ UNCHANGED <<wdFrame, usr, gwWdNotified>>

\* wait returns without a notification (a spurious wakeup).
WdSpurious ==
    /\ m_gwWdThread = "wait"
    /\ reqCount < MaxReqs
    /\ m_gwWdThread' = "woken"
    /\ lastRecv' = NoRecv
    /\ UNCHANGED <<wdFrame, usr, gwWdNotified>>

\* After wait: the thread exits if m_dscvLoopRun is cleared, otherwise it
\* calls discoverGateway(0).
WdWoken ==
    /\ m_gwWdThread = "woken"
    /\ gwWdNotified' = FALSE
    /\ IF ~m_dscvLoopRun
       THEN /\ m_gwWdThread' = "exited"
            /\ lastRecv' = NoRecv
            /\ UNCHANGED <<wdFrame, usr>>
       ELSE /\ m_gwWdThread' = "dscv"
            /\ DiscoverGatewayBegin(WdThread, 0)
            /\ UNCHANGED ctor

\* discoverGateway(0) has returned to the watchdog loop.
WdReturn ==
    /\ m_gwWdThread = "dscv"
    /\ usr[WdThread].pc = "done"
    /\ m_gwWdThread' = "loop"
    /\ gwWdNotified' = FALSE
    /\ usr' = [usr EXCEPT ![WdThread] = Idle]
    /\ lastRecv' = NoRecv
    /\ UNCHANGED wdFrame

\* Client::~Client: m_dscvLoopRun is cleared under m_mutex.  The application
\* destroys a client it is not calling.
DtorStart ==
    /\ ctor.pc = "done"
    /\ dtor = "none"
    /\ \A t \in DOMAIN usr \ {WdThread} : usr[t].pc = "idle"
    /\ m_dscvLoopRun' = FALSE
    /\ dtor' = "notify"
    /\ lastRecv' = NoRecv
    /\ UNCHANGED <<dtorFrame, llRecvCb, m_gwWdThread>>

\* m_dscvLoopCv.notify_one() and m_gwWdCv.notify_one(): the backoff sleep
\* reads m_dscvLoopRun when it returns, the watchdog is woken if it waits.
DtorNotify ==
    /\ dtor = "notify"
    /\ m_gwWdThread' = Notified(m_gwWdThread)
    /\ dtor' = "join"
    /\ lastRecv' = NoRecv
    /\ UNCHANGED <<dtorFrame, llRecvCb, m_dscvLoopRun>>

\* m_gwWdThread.join() returns once the watchdog thread has exited.
DtorJoin ==
    /\ dtor = "join"
    /\ m_gwWdThread = "exited"
    /\ dtor' = "unset"
    /\ lastRecv' = NoRecv
    /\ UNCHANGED <<dtorFrame, llRecvCb, m_dscvLoopRun, m_gwWdThread>>

\* m_ll->setRecvCb(nullptr)
DtorUnsetRecvCb ==
    /\ dtor = "unset"
    /\ llRecvCb' = "null"
    /\ dtor' = "locks"
    /\ lastRecv' = NoRecv
    /\ UNCHANGED <<dtorFrame, m_dscvLoopRun, m_gwWdThread>>

\* The final std::scoped_lock(m_mutex, m_dscvSyncMutex) and the return.
DtorFinish ==
    /\ dtor = "locks"
    /\ Lockable(dscvSyncMutex)
    /\ dtor' = "done"
    /\ lastRecv' = NoRecv
    /\ UNCHANGED <<dtorFrame, llRecvCb, m_dscvLoopRun, m_gwWdThread>>

----------------------------------------------------------------------------
(* Client: time *)

\* The cache timer fires: LocalMsgIdCache::tick.
Tick ==
    LET r == LocalMsgIdCache_tick(m_cache, m_tickNum)
    IN /\ tickDue
       /\ ticksDone < MaxTicks
       /\ tickDue' = FALSE
       /\ ticksDone' = ticksDone + 1
       /\ m_tickNum' = r.tickNum
       /\ m_cache' = r.cache
       /\ sinceIns' = [a \in DOMAIN sinceIns |->
                         [i \in DOMAIN sinceIns[a] |-> Aged(sinceIns[a][i], m_maxAge)]]
       /\ lastRecv' = NoRecv
       /\ UNCHANGED <<extVars, m_maxAge, lastIns, fnVars, clientVars, steadyUnits, threadVars,
                      reqCount, accepted, acc>>

\* steady_clock reaches the next time unit.
UnitPasses ==
    /\ ~tickDue
    /\ tickDue' = TRUE
    /\ steadyUnits' = steadyUnits + 1
    /\ lastRecv' = NoRecv
    /\ UNCHANGED <<extVars, cacheVars, cacheHist, fnVars, clientVars, threadVars,
                   reqCount, accepted, acc>>

\* A long quiet period of d units: nothing is cached or in progress, so the
\* d ticks of the cache timer only advance the tick counter.
Sleep(d) ==
    /\ m_cache = <<>>
    /\ \A t \in DOMAIN usr : usr[t].pc = "idle"
    /\ rcv.pc = "idle"
    /\ steadyUnits < d
    /\ steadyUnits' = steadyUnits + d
    /\ m_tickNum' = ToU16(m_tickNum + d)
    /\ lastRecv' = NoRecv
    /\ UNCHANGED <<extVars, m_cache, m_maxAge, cacheHist, fnVars, clientVars, tickDue, threadVars,
                   reqCount, accepted, acc>>

\* No timer under observation.
NoTimer == [pc |-> "none"]

\* The broker and the timer when a specification is not about them.
CompUnused ==
    /\ m_subs = EmptyTrie
    /\ m_recvCb = "null"
    /\ timer = NoTimer

\* The default discovery configuration (ClientConfig::GatewayDiscovery), delays
\* in seconds.
DefaultConf ==
    [dscvMinDelay |-> 1, dscvMaxDelay |-> 120, initialDscvFailThres |-> 5,
     trigMsgsFailCnt |-> trigMsgsFailCnt,
     trigTimeSyncNoRespCnt |-> trigTimeSyncNoRespCnt,
     reporting |-> [rssiOnGwDscv |-> TRUE],
     syncSystemTime |-> FALSE]

\* ClientRetainedData without a gateway, and the constructor after it has
\* returned.
NoRetained == [gw |-> NoGw, msgsFailCnt |-> 0, timeSyncNoRespCnt |-> 0]
CtorDone == [pc |-> "done", rd |-> NoRetained, syncRet |-> "NONE", dscvRet |-> "NONE"]

\* A constructed client with the default configuration on a local layer
\* without channels, its watchdog thread waiting on m_gwWdCv.
Settled ==
    /\ m_conf = DefaultConf
    /\ llRecvCb = "recvLocal"
    /\ m_mutex = "free"
    /\ channels = <<>>
    /\ llChannel = 0
    /\ scanLog = <<>>
    /\ m_dscvLoopRun = TRUE
    /\ m_gwWdThread = "wait"
    /\ ctor = CtorDone
    /\ dtor = "none"
    /\ inserted = <<>>
    /\ CompUnused

\* Values of the client's variables in the specifications that do not run it.
ClientUnused ==
    /\ m_gw = NoGw
    /\ m_pendingMsgs = <<>>
    /\ m_subDB = EmptyTrie
    /\ m_msgId = 0
    /\ m_msgsFailCnt = 0
    /\ m_timeSyncNoRespCnt = 0
    /\ m_ignoreInvalidMsgTs = FALSE
    /\ dscvSyncMutex = "free"
    /\ gwWdNotified = FALSE
    /\ steadyUnits = 0
    /\ tickDue = FALSE
    /\ usr = [t \in Users |-> Idle]
    /\ rcv = RcvIdle
    /\ reqCount = 0
    /\ accepted = {}
    /\ acc = NoAcc
    /\ lastRecv = NoRecv
    /\ Settled

----------------------------------------------------------------------------
(* SpecCache: the cache alone, driven by inserts and timer ticks *)

NoCall == [kind |-> "none"]
NoRet == [done |-> FALSE, val |-> FALSE]

InitCache ==
    /\ m_cache = <<>>
    /\ m_tickNum \in {0, U16 - 2}
    /\ m_maxAge \in {1, 2}
    /\ ticksDone = 0
    /\ sinceIns = [a \in Addrs |-> [i \in CacheIds |-> -1]]
    /\ lastIns = NoCall
    /\ fnArgs = "none"
    /\ fnRet = NoRet
    /\ ClientUnused

CacheInsert(addr, id) ==
    LET r == LocalMsgIdCache_insert(m_cache, m_tickNum, m_maxAge, addr, id)
    IN /\ m_cache' = r.cache
       /\ lastIns' = [kind |-> "insert", ret |-> r.ret, since |-> sinceIns[addr][id],
                      unchanged |-> (r.cache = m_cache)]
       /\ sinceIns' = IF r.ret THEN [sinceIns EXCEPT ![addr][id] = 0] ELSE sinceIns
       /\ UNCHANGED <<extVars, m_tickNum, m_maxAge, ticksDone, fnVars, clientVars, clockVars,
                       threadVars, histVars>>

CacheTick ==
    LET r == LocalMsgIdCache_tick(m_cache, m_tickNum)
    IN /\ ticksDone < MaxTicks
       /\ ticksDone' = ticksDone + 1
       /\ m_tickNum' = r.tickNum
       /\ m_cache' = r.cache
       /\ sinceIns' = [a \in Addrs |-> [i \in CacheIds |-> Aged(sinceIns[a][i], m_maxAge)]]
       /\ UNCHANGED <<extVars, m_maxAge, lastIns, fnVars, clientVars, clockVars, threadVars, histVars>>

NextCache ==
    \/ \E a \in Addrs, i \in CacheIds : CacheInsert(a, i)
    \/ CacheTick

SpecCache == InitCache /\ [][NextCache]_vars

\* C3: an insert of (addr, id) returns true exactly when the pair was never
\* inserted or maxAge + 1 ticks have passed since its last successful insert
\* (also when the expiry tick wraps around 2^16), and an insert that returns
\* false leaves the cache as it was.
C3_InsertWindow ==
    lastIns.kind = "insert" =>
        /\ lastIns.ret = (lastIns.since = -1 \/ lastIns.since > m_maxAge)
        /\ (~lastIns.ret => lastIns.unchanged)

\* A pair is accepted again after its entry expired at a tick number that
\* wrapped around 2^16.
C3_Witness ==
    /\ lastIns.kind = "insert"
    /\ lastIns.ret
    /\ lastIns.since # -1
    /\ m_tickNum < m_maxAge + 1
    /\ ticksDone > m_maxAge

----------------------------------------------------------------------------
(* SpecTs: INode::validateMsgTimestamp on its own *)

TsNow == {0, 1, 2, 3, 253, 254, 255, 32768, U16 - 2, U16 - 1}
TsMaxAge == {1, 2, 3, 4, 255}
TsDelta == {0, 1, 2, 3, 4, 253, 254, 255, 256, 32768, U16 - 2, U16 - 1}

InitTs ==
    /\ m_cache = <<>>
    /\ m_tickNum = 0
    /\ m_maxAge = 3
    /\ ticksDone = 0
    /\ sinceIns = [a \in Addrs |-> [i \in CacheIds |-> -1]]
    /\ lastIns = NoCall
    /\ \E now \in TsNow, d \in TsDelta, ma \in TsMaxAge :
          fnArgs = [nowUnits |-> now, msgTsUnits |-> ToU16(now + U16 - d), maxAge |-> ma]
    /\ fnRet = NoRet
    /\ ClientUnused

ValidateTs ==
    /\ ~fnRet.done
    /\ fnRet' = [done |-> TRUE,
                 val |-> validateMsgTimestamp(fnArgs.msgTsUnits, fnArgs.nowUnits, fnArgs.maxAge)]
    /\ UNCHANGED <<extVars, cacheVars, cacheHist, fnArgs, clientVars, clockVars, threadVars, histVars>>

NextTs == ValidateTs

SpecTs == InitTs /\ [][NextTs]_vars

\* C4: validate_msg_timestamp(ts, tsDiff) is true exactly when
\* (nowUnits - ts) mod 2^16 <= maxAge - 1.
C4_ModularWindow ==
    fnRet.done =>
        fnRet.val = (ToU16(fnArgs.nowUnits + U16 - fnArgs.msgTsUnits) <= fnArgs.maxAge - 1)

----------------------------------------------------------------------------
(* Client: construction and the messages the local layer delivers *)

tA == <<"a">>
tAB == <<"a", "/", "b">>
tPlus == <<"+">>
Sub(topic, cb) == [topic |-> topic, cb |-> cb]
SendRets == {"SUCCESS", "GENERIC_FAILURE"}

\* The members of a client whose constructor found the gateway GwAddr.
ClientFields(maxAges, msgIds, steadies, dues, db) ==
    /\ m_cache = <<>>
    /\ m_tickNum = 1
    /\ m_maxAge \in maxAges
    /\ ticksDone = 0
    /\ sinceIns = [a \in Addrs |-> [i \in PeerIds |-> -1]]
    /\ lastIns = NoCall
    /\ fnArgs = "none"
    /\ fnRet = NoRet
    /\ m_gw = [addr |-> GwAddr, tsDiff |-> 0, channel |-> 0]
    /\ m_pendingMsgs = <<>>
    /\ m_subDB = db
    /\ m_msgId \in msgIds
    /\ m_msgsFailCnt = 0
    /\ m_timeSyncNoRespCnt = 0
    /\ m_ignoreInvalidMsgTs = FALSE
    /\ dscvSyncMutex = "free"
    /\ gwWdNotified = FALSE
    /\ steadyUnits \in steadies
    /\ tickDue \in dues
    /\ rcv = RcvIdle
    /\ reqCount = 0
    /\ accepted = {}
    /\ acc = NoAcc
    /\ lastRecv = NoRecv

\* The client after its constructor found the gateway at the first attempt.
ClientStart(maxAges, msgIds, steadies, dues, db) ==
    /\ ClientFields(maxAges, msgIds, steadies, dues, db)
    /\ usr = [t \in Users |-> Idle]
    /\ Settled

\* A message from a gateway; only a PROBE_RES carries a preference, and the
\* RSSI is the one a LocalMsg has by default.
Msg(type, addr, id, ts, reqId) ==
    [type |-> type, addr |-> addr, id |-> id, ts |-> ts, reqId |-> reqId,
     nodeType |-> "GATEWAY", tsDiff |-> 0, rssi |-> MSG_RSSI_UNKNOWN,
     pref |-> IF type = "PROBE_RES" THEN 1 ELSE PREF_UNKNOWN,
     subsData |-> IF type = "SUB_DATA" THEN <<[topic |-> tA]>> ELSE <<>>]

\* The client's current time in units, as a peer in sync stamps it.
Now == NowUnits(steadyUnits, m_gw.tsDiff)

\* A peer numbers its messages consecutively; an id it used may be replayed.
PeerMsgIds(addr) ==
    {i \in PeerIds : \A j \in 0..(i - 1) : j \in CachedIds(m_cache, addr)}

\* The ids handed out most recently, and the one handed out next.
RecentIds == {ToU16(m_msgId + U16 - k) : k \in 0..1}

\* Messages that recvLocal refuses outright.
InvalidMsgs ==
    {[Msg("OK", GwAddr, 0, Now, 0) EXCEPT !.nodeType = "CLIENT"],
     Msg("PUB_SUB_UNSUB", GwAddr, 0, Now, 0)}

----------------------------------------------------------------------------
(* SpecReq: requests, responses and the pending-request table *)

InitReq ==
    ClientStart({3}, {U16 - 1}, {10}, {FALSE}, WildcardTrie_insert(EmptyTrie, tA, "cb1"))

\* The next message of a peer.
FreshId(addr) == {i \in PeerMsgIds(addr) : i \notin CachedIds(m_cache, addr)}

\* Responses of the gateway, and responses of another node.
ReqResps ==
    {Msg(ty, GwAddr, i, Now, r) : ty \in {"OK", "FAIL", "PROBE_RES"},
                                  i \in FreshId(GwAddr), r \in RecentIds}
    \cup {Msg("OK", a, i, Now, r) : a \in Addrs \ {GwAddr}, i \in FreshId("gw3"),
                                     r \in RecentIds}

ReqSubData == {Msg("SUB_DATA", GwAddr, i, Now, 0) : i \in FreshId(GwAddr)}

SendSteps ==
    \/ \E t \in Users : SendPrepare(t)
    \/ \E t \in Users, r \in SendRets : SendCall(t, r)
    \/ \E t \in Users : WaitReady(t)
    \/ \E t \in Users : WaitTimeout(t)
    \/ \E t \in Users : SendCollect(t)
    \/ \E t \in Users : Account(t)
    \/ \E t \in Users : Return(t)

AckSteps ==
    \/ AckPrepare
    \/ \E r \in SendRets : AckSend(r)
    \/ Deliver

NextReq ==
    \/ \E t \in Users : CallPubSubUnsubBulk(t, <<tA>>, <<>>, <<>>)
    \/ \E t \in Users : CallSyncTime(t)
    \/ \E t \in Users : CallDiscoverGateway(t, 1)
    \/ \E t \in Users : DscvLoop(t)
    \/ \E t \in Users, r \in SendRets : DscvDecide(t, r)
    \/ \E t \in Users : DscvWait(t)
    \/ SendSteps
    \/ \E t \in Users : BroadcastCollect(t)
    \/ \E t \in Users : FinishPubSubUnsub(t)
    \/ \E t \in Users : FinishSyncTime(t)
    \/ \E t \in Users : FinishDiscoverGateway(t)
    \/ \E msg \in ReqResps : RecvResp(msg)
    \/ \E msg \in ReqSubData : RecvSubData(msg, FALSE)
    \/ \E msg \in InvalidMsgs : RecvInvalid(msg)
    \/ AckSteps

SpecReq == InitReq /\ [][NextReq]_vars

----------------------------------------------------------------------------
(* SpecSend: the outcome of a unicast request *)

\* Answers to the request sent last: the gateway's, and one of another node.
SendResps ==
    {Msg(ty, GwAddr, i, Now, ToU16(m_msgId + U16 - 1)) :
        ty \in {"OK", "FAIL", "PROBE_RES"}, i \in FreshId(GwAddr)}
    \cup {Msg("OK", a, 0, Now, ToU16(m_msgId + U16 - 1)) : a \in Addrs \ {GwAddr}}

NextSend ==
    \/ \E t \in Users : CallPubSubUnsubBulk(t, <<tA>>, <<>>, <<>>)
    \/ \E t \in Users : CallPubSubUnsubBulk(t, <<>>, <<Sub(tAB, "cb2")>>, <<tA>>)
    \/ \E t \in Users : CallDiscoverGateway(t, 1)
    \/ \E t \in Users : DscvLoop(t)
    \/ \E t \in Users, r \in SendRets : DscvDecide(t, r)
    \/ \E t \in Users : DscvWait(t)
    \/ SendSteps
    \/ \E t \in Users : BroadcastCollect(t)
    \/ \E t \in Users : FinishPubSubUnsub(t)
    \/ \E t \in Users : FinishDiscoverGateway(t)
    \/ \E msg \in SendResps : RecvResp(msg)

SpecSend == InitReq /\ [][NextSend]_vars

\* A pubSubUnsubBulk call with non-empty input that has just returned.
DoneBulk(t) ==
    /\ usr[t].pc = "done"
    /\ usr[t].op = "pubSubUnsubBulk"
    /\ Len(usr[t].pubs) + Len(usr[t].subs) + Len(usr[t].unsubs) > 0

\* C5: a unicast PUB_SUB_UNSUB request returns SUCCESS only if send
\* succeeded and an OK from the gateway was accepted before the wait ended;
\* a send error is returned unchanged; without an accepted response the
\* result is TIMEOUT; an accepted FAIL gives MSG_PROCESSING_FAILED; without a
\* gateway the result is NO_GATEWAY and send is not called.
C5_RequestResult ==
    \A t \in Users : DoneBulk(t) =>
        LET u == usr[t]
        IN /\ u.ret = "SUCCESS" =>
                /\ u.sendRet = "SUCCESS"
                /\ u.got = [type |-> "OK", addr |-> u.gw]
                /\ u.gw # NoAddr
           /\ u.sendRet \notin {"SUCCESS", "NOT_CALLED"} => u.ret = u.sendRet
           /\ (u.sendRet = "SUCCESS" /\ u.got.type = "NONE") => u.ret = "TIMEOUT"
           /\ (u.sendRet = "SUCCESS" /\ u.got.type = "FAIL") =>
                u.ret = "MSG_PROCESSING_FAILED"
           /\ (u.gw = NoAddr) = (u.ret = "NO_GATEWAY")
           /\ u.gw = NoAddr => u.sendRet = "NOT_CALLED"

\* A publish is answered with FAIL by the gateway and fails.
C5_Witness ==
    \E t \in Users :
        /\ DoneBulk(t)
        /\ usr[t].sendRet = "SUCCESS"
        /\ usr[t].got = [type |-> "FAIL", addr |-> GwAddr]
        /\ usr[t].ret = "MSG_PROCESSING_FAILED"

\* C38: a unicast request for which recv accepted a response with SUCCESS
\* returns the outcome of that response, SUCCESS or MSG_PROCESSING_FAILED,
\* and a request that returns TIMEOUT had no response accepted.
C38_AcceptOrTimeout ==
    \A t \in Users :
        (DoneBulk(t) /\ usr[t].sendRet = "SUCCESS") =>
            /\ usr[t].id \in accepted =>
                  usr[t].ret \in {"SUCCESS", "MSG_PROCESSING_FAILED"}
            /\ usr[t].ret = "TIMEOUT" => usr[t].id \notin accepted

\* Whether the response just received followed the replay checks.
PastReplayChecks == lastRecv.ret \notin {"MSG_DUP_ID", "MSG_INVALID_TS"}

\* C8: recv of a response returns SUCCESS and stores the response only when
\* reqId names a request in flight, the type pair is in the table and, for a
\* unicast request, the sender is the request's destination; otherwise
\* nothing is stored, nobody is completed and the result is NOT_FOUND,
\* MSG_UNKNOWN_SENDER or INVALID_ARG.
C8_StoredOnlyForPending ==
    lastRecv.kind = "resp" =>
        /\ (lastRecv.ret = "SUCCESS" \/ lastRecv.stored \/ lastRecv.completed) =>
                (lastRecv.inFlight /\ lastRecv.pairOk /\ lastRecv.addrOk)
        /\ (PastReplayChecks /\ ~lastRecv.inFlight) => lastRecv.ret = "NOT_FOUND"
        /\ (PastReplayChecks /\ lastRecv.inFlight /\ ~lastRecv.addrOk) =>
                lastRecv.ret = "MSG_UNKNOWN_SENDER"
        /\ (PastReplayChecks /\ lastRecv.inFlight /\ lastRecv.addrOk /\ ~lastRecv.pairOk) =>
                lastRecv.ret = "INVALID_ARG"

\* C9: the pending-request table holds entries only for requests in flight.
C9_TableHoldsInFlightOnly ==
    \A id \in DOMAIN m_pendingMsgs : InFlightReq(id).inFlight

\* C10: once a response to a unicast request was accepted, a further response
\* with the same reqId gets NOT_FOUND and is not stored, also while the
\* sender has not yet taken its response.
C10_SecondResponseNotFound ==
    (lastRecv.kind = "resp" /\ lastRecv.priorAcc /\ lastRecv.inFlight /\ PastReplayChecks) =>
        (lastRecv.ret = "NOT_FOUND" /\ ~lastRecv.stored)

----------------------------------------------------------------------------
(* SpecDB: the subscription database under the bulk operations *)

BulkSubs ==
    {<<>>, <<Sub(tA, "cb1")>>, <<Sub(tA, "cb2")>>, <<Sub(tAB, "cb1")>>,
     <<Sub(tA, "cb1"), Sub(tAB, "cb2")>>, <<Sub(tA, "cb1"), Sub(tA, "cb2")>>}
BulkUnsubs == {<<>>, <<tA>>, <<tAB>>, <<tA, tAB>>, <<tPlus>>}
BulkPubs == {<<>>, <<tA>>}

InitDB == ClientStart({3}, {0}, {10}, {FALSE}, EmptyTrie)

\* The gateway's answer to the request sent last.
DBResps ==
    {Msg(ty, GwAddr, i, Now, ToU16(m_msgId + U16 - 1)) :
        ty \in {"OK", "FAIL"},
        i \in FreshId(GwAddr)}

NextDB ==
    \/ \E t \in Users, p \in BulkPubs, s \in BulkSubs, u \in BulkUnsubs :
          CallPubSubUnsubBulk(t, p, s, u)
    \/ \E t \in Users : CallUnsubscribeAll(t)
    \/ \E t \in Users : CallResubscribeAll(t)
    \/ \E t \in Users : CallDiscoverGateway(t, 1)
    \/ \E t \in Users : DscvLoop(t)
    \/ \E t \in Users, r \in SendRets : DscvDecide(t, r)
    \/ \E t \in Users : DscvWait(t)
    \/ SendSteps
    \/ \E t \in Users : BroadcastCollect(t)
    \/ \E t \in Users : FinishPubSubUnsub(t)
    \/ \E t \in Users : FinishDiscoverGateway(t)
    \/ \E msg \in DBResps : RecvResp(msg)

SpecDB == InitDB /\ [][NextDB]_vars

\* The subscriptions of a database: topic -> callback.
SubMap(db) ==
    LET kvs == WildcardTrie_forEach(db)
    IN [k \in {kv[1] : kv \in kvs} |-> (CHOOSE kv \in kvs : kv[1] = k)[2]]

\* The subscriptions after every topic of unsubs is removed from `before`
\* and then every (topic, cb) of subs is inserted, in order.
ExpectedSubs(before, subs, unsubs) ==
    LET m == SubMap(before)
        kept == {k \in DOMAIN m : \A i \in 1..Len(unsubs) : unsubs[i] # k}
        new == {subs[i].topic : i \in 1..Len(subs)}
        last(k) == CHOOSE i \in 1..Len(subs) :
                      /\ subs[i].topic = k
                      /\ \A j \in (i + 1)..Len(subs) : subs[j].topic # k
    IN [k \in kept \cup new |-> IF k \in new THEN subs[last(k)].cb ELSE m[k]]

DoneDBOp(t) ==
    /\ usr[t].pc = "done"
    /\ usr[t].op \in {"pubSubUnsubBulk", "unsubscribeAll", "resubscribeAll"}

\* C6: when pubSubUnsubBulk, unsubscribeAll or resubscribeAll returns anything
\* other than SUCCESS, the subscription database is what it was before the call.
C6_FailureKeepsDB ==
    \A t \in Users :
        (DoneDBOp(t) /\ usr[t].ret # "SUCCESS") => m_subDB = usr[t].dbBefore

\* A bulk call with subscriptions and unsubscriptions on a populated database
\* is answered with FAIL.
C6_Witness ==
    \E t \in Users :
        /\ DoneDBOp(t)
        /\ usr[t].ret = "MSG_PROCESSING_FAILED"
        /\ usr[t].op = "pubSubUnsubBulk"
        /\ usr[t].subs # <<>>
        /\ usr[t].unsubs = <<tA>>
        /\ tA \in DOMAIN SubMap(usr[t].dbBefore)

\* C7: after OK, pubSubUnsubBulk has removed every topic of unsubs and then
\* inserted every (topic, callback) of subs, and its pubs change nothing; a
\* successful unsubscribeAll leaves the database empty; a successful
\* resubscribeAll leaves it unchanged.
C7_CommitOnOk ==
    \A t \in Users :
        (DoneDBOp(t) /\ usr[t].ret = "SUCCESS") =>
            LET u == usr[t]
            IN /\ u.op = "pubSubUnsubBulk" =>
                    /\ SubMap(m_subDB) = ExpectedSubs(u.dbBefore, u.subs, u.unsubs)
                    /\ (u.subs = <<>> /\ u.unsubs = <<>>) => m_subDB = u.dbBefore
               /\ u.op = "unsubscribeAll" => WildcardTrie_forEach(m_subDB) = {}
               /\ u.op = "resubscribeAll" => m_subDB = u.dbBefore

\* A topic subscribed with cb1 is listed in unsubs and, with cb2, in subs.
C7_Witness ==
    \E t \in Users :
        /\ DoneDBOp(t)
        /\ usr[t].ret = "SUCCESS"
        /\ usr[t].op = "pubSubUnsubBulk"
        /\ usr[t].unsubs = <<tA>>
        /\ usr[t].subs = <<Sub(tA, "cb2")>>
        /\ tA \in DOMAIN SubMap(usr[t].dbBefore)
        /\ SubMap(usr[t].dbBefore)[tA] = "cb1"
        /\ SubMap(m_subDB)[tA] = "cb2"

----------------------------------------------------------------------------
(* SpecDup: duplicate message ids while the cache timer ticks *)

InitDup ==
    ClientStart({1, 2}, {0}, {3}, BOOLEAN, WildcardTrie_insert(EmptyTrie, tA, "cb1"))

\* The gateway's messages, all with the same id.
DupResps == {Msg("OK", GwAddr, 0, Now, ToU16(m_msgId + U16 - 1))}
DupSubData == {Msg("SUB_DATA", GwAddr, 0, Now, 0)}

NextDup ==
    \/ \E t \in Users : CallPubSubUnsubBulk(t, <<tA>>, <<>>, <<>>)
    \/ \E t \in Users : SendPrepare(t)
    \/ \E t \in Users : SendCall(t, "SUCCESS")
    \/ \E t \in Users : WaitReady(t)
    \/ \E t \in Users : WaitTimeout(t)
    \/ \E t \in Users : SendCollect(t)
    \/ \E t \in Users : Account(t)
    \/ \E t \in Users : FinishPubSubUnsub(t)
    \/ \E t \in Users : Return(t)
    \/ \E msg \in DupResps : RecvResp(msg)
    \/ \E msg \in DupSubData : RecvSubData(msg, FALSE)
    \/ AckPrepare
    \/ AckSend("SUCCESS")
    \/ Deliver
    \/ Tick
    \/ UnitPasses

SpecDup == InitDup /\ [][NextDup]_vars

\* C1: a message that carries an (addr, id) received at most maxAge cache
\* ticks ago is rejected with MSG_DUP_ID; it completes no pending request,
\* stores nothing, is not acknowledged and reaches no subscription callback.
C1_DuplicateRejected ==
    /\ (lastRecv.kind = "resp" /\ lastRecv.inWindow) =>
            (lastRecv.ret = "MSG_DUP_ID" /\ ~lastRecv.stored /\ ~lastRecv.completed)
    /\ (lastRecv.kind = "subdata" /\ lastRecv.inWindow) =>
            (lastRecv.ret = "MSG_DUP_ID" /\ ~lastRecv.acked /\ lastRecv.cbs = 0)

\* A response reuses the (addr, id) of a SUB_DATA message received maxAge
\* ticks earlier, while its request is waiting, and is rejected.
C1_Witness ==
    /\ lastRecv.kind = "resp"
    /\ lastRecv.inWindow
    /\ lastRecv.inFlight
    /\ lastRecv.ret = "MSG_DUP_ID"
    /\ sinceIns[GwAddr][0] = m_maxAge
    /\ m_maxAge = 2

----------------------------------------------------------------------------
(* SpecReplay: one SUB_DATA message delivered again as time passes *)

\* Lengths of the quiet periods explored.
SleepUnits == {U16 - 8, U16 - 4}

InitReplay ==
    ClientStart({2, 3}, {0}, {3}, BOOLEAN, WildcardTrie_insert(EmptyTrie, tA, "cb1"))

\* Timestamps inside and just outside the accepted window, and the
\* timestamp of the accepted message that history follows.
ReplayTs ==
    {ToU16(Now + U16 - k) : k \in 0..m_maxAge} \cup (IF acc.set THEN {acc.ts} ELSE {})

ReplaySubData == {Msg("SUB_DATA", GwAddr, 0, ts, 0) : ts \in ReplayTs}

NextReplay ==
    \/ \E msg \in ReplaySubData, track \in BOOLEAN : RecvSubData(msg, track /\ ~acc.set)
    \/ AckPrepare
    \/ AckSend("SUCCESS")
    \/ Deliver
    \/ Tick
    \/ UnitPasses
    \/ \E d \in SleepUnits : Sleep(d)

SpecReplay == InitReplay /\ [][NextReplay]_vars

\* C2 as stated: while fewer than 2^16 time units have elapsed, the identical
\* SUB_DATA message is never accepted again: MSG_DUP_ID while its id is
\* cached, MSG_INVALID_TS afterwards.
C2_NeverAcceptedAgain ==
    (lastRecv.kind = "subdata" /\ lastRecv.redeliv /\ lastRecv.elapsed < U16) =>
        lastRecv.ret = IF lastRecv.inWindow THEN "MSG_DUP_ID" ELSE "MSG_INVALID_TS"

\* C2 amended: the same while at most 2^16 - maxAge unit boundaries have
\* been crossed since the message was accepted.
C2_NeverAcceptedAgainBeforeWrap ==
    (lastRecv.kind = "subdata" /\ lastRecv.redeliv /\ lastRecv.elapsed <= U16 - m_maxAge) =>
        lastRecv.ret = IF lastRecv.inWindow THEN "MSG_DUP_ID" ELSE "MSG_INVALID_TS"

\* The accepted message is redelivered after the long quiet period, still
\* short of the wrap, and rejected for its timestamp.
C2_Witness ==
    /\ lastRecv.kind = "subdata"
    /\ lastRecv.redeliv
    /\ lastRecv.elapsed > U16 - 8
    /\ lastRecv.elapsed <= U16 - m_maxAge
    /\ lastRecv.ret = "MSG_INVALID_TS"

----------------------------------------------------------------------------
(* SpecSubData: subscription data delivered to overlapping subscriptions *)

tX == <<"x">>
tSlashX == <<"/", "x">>
tHash == <<"#">>
tSlashHash == <<"/", "#">>
tAHash == <<"a", "/", "#">>

\* Subscription tables with overlapping patterns, one callback per pattern.
SubDataDBs ==
    {InsertAll(EmptyTrie, <<Sub(tA, "cb1"), Sub(tPlus, "cb2"), Sub(tAB, "cb3"),
                            Sub(tAHash, "cb4"), Sub(tHash, "cb5")>>),
     InsertAll(EmptyTrie, <<Sub(tHash, "cb1"), Sub(tSlashHash, "cb2"),
                            Sub(tSlashX, "cb3")>>)}

InitSubData ==
    \E db \in SubDataDBs : ClientStart({2}, {0}, {3}, {FALSE}, db)

\* SUB_DATA messages of the gateway and of another node, current and stale,
\* carrying one or two SubData.
SubDataTopics == {<<tA>>, <<tAB, tX>>, <<tSlashX>>}
SubDataMsgs ==
    {[Msg("SUB_DATA", a, i, ts, 0) EXCEPT
         !.subsData = [k \in 1..Len(tps) |-> [topic |-> tps[k]]]] :
        a \in Addrs, i \in PeerIds, ts \in {Now, ToU16(Now + U16 - m_maxAge)},
        tps \in SubDataTopics}

NextSubData ==
    \/ \E msg \in SubDataMsgs : RecvSubData(msg, FALSE)
    \/ AckPrepare
    \/ \E r \in SendRets : AckSend(r)
    \/ Deliver

SpecSubData == InitSubData /\ [][NextSubData]_vars

\* A stored pattern (the levels of a leaf) matches the levels of a topic:
\* level by level with "+" standing for any one level, or up to a final "#"
\* that stands for one or more remaining levels.
Matches(pattern, levels) ==
    \/ /\ Len(pattern) = Len(levels)
       /\ \A i \in 1..Len(pattern) : pattern[i] = levels[i] \/ pattern[i] = lSingleWild
    \/ /\ Len(pattern) >= 1
       /\ pattern[Len(pattern)] = lMultiWild
       /\ Len(levels) >= Len(pattern)
       /\ \A i \in 1..(Len(pattern) - 1) :
              pattern[i] = levels[i] \/ pattern[i] = lSingleWild

\* The stored patterns that match a topic.
MatchingPatterns(trie, topic) ==
    {p \in DOMAIN trie : trie[p].isLeaf /\ Matches(p, splitToLevels(topic))}

\* C11: a SUB_DATA message with a fresh id and a valid timestamp is refused
\* with MSG_UNKNOWN_SENDER, unacknowledged and without any callback, when its
\* sender is not the gateway; otherwise one OK goes to the gateway and, for
\* each SubData, the callback of every matching stored pattern is called
\* exactly once and no other callback is called.
C11_SubDataDelivered ==
    (lastRecv.kind = "subdata" /\ ~lastRecv.inWindow /\ lastRecv.tsOk) =>
        IF ~lastRecv.fromGw
        THEN /\ lastRecv.ret = "MSG_UNKNOWN_SENDER"
             /\ ~lastRecv.acked
             /\ lastRecv.cbs = 0
        ELSE /\ lastRecv.ret = "SUCCESS"
             /\ lastRecv.ackDest = lastRecv.gw
             /\ \A i \in 1..Len(lastRecv.topics) :
                    LET want == MatchingPatterns(m_subDB, lastRecv.topics[i])
                        got == lastRecv.calls[i]
                    IN /\ Cardinality(DOMAIN got) = Cardinality(want)
                       /\ {got[k] : k \in DOMAIN got} = {m_subDB[p].value : p \in want}

----------------------------------------------------------------------------
(* SpecScan: one discovery attempt, without and with channels *)

\* The local layers explored: one without channels, one with two.
ScanChannels == {<<>>, <<74, 39>>}

\* The client of ClientFields on one of these local layers.
InitScan ==
    /\ ClientFields({3}, {0}, {10}, {FALSE}, EmptyTrie)
    /\ usr = [t \in Users |-> Idle]
    /\ m_conf = DefaultConf
    /\ llRecvCb = "recvLocal"
    /\ m_mutex = "free"
    /\ channels \in ScanChannels
    /\ llChannel = 0
    /\ scanLog = <<>>
    /\ m_dscvLoopRun = TRUE
    /\ m_gwWdThread = "wait"
    /\ ctor = CtorDone
    /\ dtor = "none"
    /\ inserted = <<>>
    /\ CompUnused

\* Probe responses to the probe sent last: of the gateway with a preference
\* or with the preference that a LocalMsg has by default, and of a second
\* gateway with the same or a higher preference.
ScanPrefs(a) == IF a = GwAddr THEN {PREF_UNKNOWN, 100} ELSE {100, 200}
ScanResps ==
    UNION {{[Msg("PROBE_RES", a, i, Now, ToU16(m_msgId + U16 - 1)) EXCEPT
                !.pref = pr, !.tsDiff = IF a = GwAddr THEN 5 ELSE 7] :
               i \in FreshId(a), pr \in ScanPrefs(a)} : a \in Addrs}

\* The application calls discoverGateway(1) once, on an unused local layer.
ScanOnce(t) == scanLog = <<>> /\ CallDiscoverGateway(t, 1)

NextScan ==
    \/ \E t \in Users : ScanOnce(t)
    \/ \E t \in Users : DscvLoop(t)
    \/ \E t \in Users, r \in SendRets : DscvSetChannel(t, r)
    \/ \E t \in Users : SendPrepare(t)
    \/ \E t \in Users, r \in SendRets : SendCall(t, r)
    \/ \E t \in Users : BroadcastCollect(t)
    \/ \E t \in Users : FinishDiscoverGateway(t)
    \/ \E t \in Users, r \in SendRets : DscvDecide(t, r)
    \/ \E t \in Users : DscvWait(t)
    \/ \E t \in Users : Return(t)
    \/ \E msg \in ScanResps : RecvResp(msg)

SpecScan == InitScan /\ [][NextScan]_vars

\* A discoverGateway call that has just returned.
DoneDscv(t) == usr[t].pc = "done" /\ usr[t].op = "discoverGateway"

\* The i-th response collected has the highest preference, and is the first
\* of those that have it.
IsBest(seen, i) ==
    \A j \in 1..Len(seen) :
        /\ seen[j].pref <= seen[i].pref
        /\ j < i => seen[j].pref < seen[i].pref

\* The channels on which the last attempt of thread t broadcast a probe, and
\* those it could set.
ProbedChannels(t) ==
    {scanLog[i].ch : i \in {j \in 1..Len(scanLog) :
                                scanLog[j].t = t /\ scanLog[j].op = "probe"}}
SetChannels(t) ==
    {scanLog[i].ch : i \in {j \in 1..Len(scanLog) :
                                /\ scanLog[j].t = t
                                /\ scanLog[j].op = "setChannel"
                                /\ scanLog[j].ret = "SUCCESS"}}

\* C12: an attempt probes every channel (the current one if there are none),
\* and if it collected at least one response it succeeds: the gateway stored
\* is the first responder of maximal pref, with the tsDiff of that response,
\* the local layer is on the channel of that response (provided its final
\* setChannel succeeded) and both failure counters are 0.
C12_AttemptPicksBest ==
    \A t \in Users :
        DoneDscv(t) =>
            /\ \A i \in 1..Len(channels) :
                   channels[i] \in SetChannels(t) => channels[i] \in ProbedChannels(t)
            /\ usr[t].dscv.seen # <<>> =>
                   /\ usr[t].ret = "SUCCESS"
                   /\ \E i \in 1..Len(usr[t].dscv.seen) :
                          LET resp == usr[t].dscv.seen[i]
                          IN /\ IsBest(usr[t].dscv.seen, i)
                             /\ m_gw.addr = resp.addr
                             /\ m_gw.tsDiff = resp.tsDiff
                             /\ (scanLog[Len(scanLog)].ret = "SUCCESS" =>
                                     llChannel = resp.channel)
                   /\ m_msgsFailCnt = 0
                   /\ m_timeSyncNoRespCnt = 0

----------------------------------------------------------------------------
(* SpecBackoff: discovery while no gateway answers *)

\* Discovery delays (dscvMinDelay <= dscvMaxDelay), the default ones included.
BackoffConfs ==
    {[DefaultConf EXCEPT !.dscvMinDelay = lo, !.dscvMaxDelay = hi] :
        lo \in {1, 2}, hi \in {2, 3, 4, 120}}

\* The values of maxAttempts explored; 0 stands for "no limit".
BackoffAttempts == {0, 1, 2, 3}

InitBackoff ==
    /\ ClientFields({3}, {0}, {10}, {FALSE}, EmptyTrie)
    /\ usr = [t \in Users |-> Idle]
    /\ m_conf \in BackoffConfs
    /\ llRecvCb = "recvLocal"
    /\ m_mutex = "free"
    /\ channels \in {<<>>, <<74>>}
    /\ llChannel = 0
    /\ scanLog = <<>>
    /\ m_dscvLoopRun = TRUE
    /\ m_gwWdThread = "wait"
    /\ ctor = CtorDone
    /\ dtor = "none"
    /\ inserted = <<>>
    /\ CompUnused

\* The application calls discoverGateway once, on an unused local layer.
BackoffOnce(t, maxAttempts) == scanLog = <<>> /\ CallDiscoverGateway(t, maxAttempts)

NextBackoff ==
    \/ \E t \in Users, n \in BackoffAttempts : BackoffOnce(t, n)
    \/ \E t \in Users : DscvLoop(t)
    \/ \E t \in Users, r \in SendRets : DscvSetChannel(t, r)
    \/ \E t \in Users : SendPrepare(t)
    \/ \E t \in Users, r \in SendRets : SendCall(t, r)
    \/ \E t \in Users : BroadcastCollect(t)
    \/ \E t \in Users : FinishDiscoverGateway(t)
    \/ \E t \in Users, r \in SendRets : DscvDecide(t, r)
    \/ \E t \in Users : DscvWait(t)
    \/ \E t \in Users : CallPubSubUnsubBulk(t, <<tA>>, <<>>, <<>>)
    \/ \E t \in Users : Account(t)
    \/ \E t \in Users : FinishPubSubUnsub(t)
    \/ \E t \in Users : Return(t)

SpecBackoff == InitBackoff /\ [][NextBackoff]_vars

RECURSIVE Pow2(_)
Pow2(k) == IF k = 0 THEN 1 ELSE 2 * Pow2(k - 1)

Min(a, b) == IF a < b THEN a ELSE b

\* C13: while no gateway answers, discoverGateway(n) with n > 0 makes exactly
\* n attempts, sleeps min(dscvMinDelay * 2^(k-1), dscvMaxDelay) after the k-th
\* and returns TOO_MANY_FAILED_ATTEMPTS with m_gw reset, after which a unicast
\* request returns NO_GATEWAY without calling send; discoverGateway(0) never
\* returns as long as the client is not destroyed, and a new attempt follows
\* every sleep.
C13_BackoffThenFail ==
    \A t \in Users :
        /\ (DoneDscv(t) /\ usr[t].dscv.maxAttempts > 0) =>
              LET d == usr[t].dscv
              IN /\ usr[t].ret = "TOO_MANY_FAILED_ATTEMPTS"
                 /\ d.scans = d.maxAttempts
                 /\ Len(d.waits) = d.maxAttempts
                 /\ \A k \in 1..Len(d.waits) :
                        d.waits[k] = Min(m_conf.dscvMinDelay * Pow2(k - 1),
                                         m_conf.dscvMaxDelay)
                 /\ m_gw = NoGw
        /\ (/\ usr[t].pc # "idle"
            /\ usr[t].op = "discoverGateway"
            /\ usr[t].dscv.maxAttempts = 0) =>
              /\ usr[t].pc # "done"
              /\ usr[t].dscv.scans \in {usr[t].dscv.attemptsCnt,
                                         usr[t].dscv.attemptsCnt + 1}
        /\ (DoneBulk(t) /\ m_gw = NoGw) =>
              (usr[t].ret = "NO_GATEWAY" /\ usr[t].sendRet = "NOT_CALLED")

\* discoverGateway(3) returns TOO_MANY_FAILED_ATTEMPTS after three attempts
\* and sleeps of 1, 2 and 3 seconds, the last one capped by dscvMaxDelay.
C13_Witness ==
    \E t \in Users :
        /\ DoneDscv(t)
        /\ usr[t].dscv.waits = <<1, 2, 3>>
        /\ usr[t].dscv.scans = 3
        /\ usr[t].ret = "TOO_MANY_FAILED_ATTEMPTS"
        /\ m_gw = NoGw

----------------------------------------------------------------------------
(* SpecPar: concurrent discoveries and time syncs *)

ParUsers == {"u1", "u2", "u3"}
ParChannels == <<10, 20, 30, 40>>

InitPar ==
    /\ ClientFields({3}, {0}, {10}, {FALSE}, EmptyTrie)
    /\ usr = [t \in ParUsers |-> Idle]
    /\ m_conf = DefaultConf
    /\ llRecvCb = "recvLocal"
    /\ m_mutex = "free"
    /\ channels = ParChannels
    /\ llChannel = 0
    /\ scanLog = <<>>
    /\ m_dscvLoopRun = TRUE
    /\ m_gwWdThread = "wait"
    /\ ctor = CtorDone
    /\ dtor = "none"
    /\ inserted = <<>>
    /\ CompUnused

\* The gateway's first message: an answer to the probe sent last.
ParResps ==
    {[Msg("PROBE_RES", GwAddr, 0, Now, ToU16(m_msgId + U16 - 1)) EXCEPT !.pref = 100]}

\* The threads make their calls at the same time, before any of them has
\* used the local layer.
ParDiscoverGateway(t) == scanLog = <<>> /\ CallDiscoverGateway(t, 1)
ParSyncTime(t) == scanLog = <<>> /\ CallSyncTime(t)

NextPar ==
    \/ \E t \in ParUsers : ParDiscoverGateway(t)
    \/ \E t \in ParUsers : ParSyncTime(t)
    \/ \E t \in ParUsers : DscvLoop(t)
    \/ \E t \in ParUsers : DscvSetChannel(t, "SUCCESS")
    \/ \E t \in ParUsers : SendPrepare(t)
    \/ \E t \in ParUsers : SendCall(t, "SUCCESS")
    \/ \E t \in ParUsers : BroadcastCollect(t)
    \/ \E t \in ParUsers : FinishDiscoverGateway(t)
    \/ \E t \in ParUsers : DscvDecide(t, "SUCCESS")
    \/ \E t \in ParUsers : DscvWait(t)
    \/ \E t \in ParUsers : WaitReady(t)
    \/ \E t \in ParUsers : WaitTimeout(t)
    \/ \E t \in ParUsers : SendCollect(t)
    \/ \E t \in ParUsers : Account(t)
    \/ \E t \in ParUsers : FinishSyncTime(t)
    \/ \E t \in ParUsers : Return(t)
    \/ \E msg \in ParResps : RecvResp(msg)

SpecPar == InitPar /\ [][NextPar]_vars

\* Thread t is inside a scan attempt or inside syncTime.
InSection(t) ==
    /\ usr[t].pc \notin {"idle", "done", "dscv_loop", "dscv_wait"}
    /\ usr[t].op \in {"discoverGateway", "syncTime"}

\* Thread t has finished a scan attempt.
ScanFinished(t) ==
    /\ usr[t].pc \in {"done", "dscv_wait"}
    /\ usr[t].op = "discoverGateway"
    /\ usr[t].dscv.scans > 0

\* The channels of the setChannel calls among the entries (from, to] of scanLog.
RECURSIVE SetChannelSeq(_, _)
SetChannelSeq(from, to) ==
    IF to <= from THEN <<>>
    ELSE IF scanLog[to].op = "setChannel"
    THEN Append(SetChannelSeq(from, to - 1), scanLog[to].ch)
    ELSE SetChannelSeq(from, to - 1)

\* C14: at most one thread is inside a scan attempt or syncTime; what a
\* thread inside has put on the local layer since it entered is not mixed
\* with calls of other threads; and a finished scan is one block of the log:
\* setChannel for each channel in order, then for the best gateway's channel.
C14_ScansExclusive ==
    /\ Cardinality({t \in DOMAIN usr : InSection(t)}) <= 1
    /\ \A t \in DOMAIN usr :
          InSection(t) =>
              \A i \in (usr[t].dscv.logStart + 1)..Len(scanLog) : scanLog[i].t = t
    /\ \A t \in DOMAIN usr :
          ScanFinished(t) =>
              LET d == usr[t].dscv
              IN /\ \A i \in (d.logStart + 1)..d.logEnd : scanLog[i].t = t
                 /\ SetChannelSeq(d.logStart, d.logEnd) =
                        channels \o (IF d.bestGw.addr # NoAddr /\ channels # <<>>
                                     THEN <<d.bestGw.channel>> ELSE <<>>)

\* Three discoverGateway calls were in progress at once and all have
\* returned: the log holds three scans of the four channels.
C14_Witness ==
    /\ \A t \in ParUsers : DoneDscv(t)
    /\ Len(scanLog) >= 24
    /\ \E t \in ParUsers : usr[t].ret = "SUCCESS"

----------------------------------------------------------------------------
(* SpecWd: failed requests and the gateway watchdog thread *)

WdThreads == Users \cup {WdThread}

\* The client right after its constructor has spawned the watchdog thread,
\* with a threshold of failed messages of 0 ("every failure"), 1 or 2.
InitWd ==
    /\ ClientFields({3}, {0}, {10}, {FALSE}, EmptyTrie)
    /\ usr = [t \in WdThreads |-> Idle]
    /\ \E trig \in {0, 1, 2} : m_conf = [DefaultConf EXCEPT !.trigMsgsFailCnt = trig]
    /\ llRecvCb = "recvLocal"
    /\ m_mutex = "free"
    /\ channels = <<>>
    /\ llChannel = 0
    /\ scanLog = <<>>
    /\ m_dscvLoopRun = TRUE
    /\ m_gwWdThread = "check"
    /\ ctor = CtorDone
    /\ dtor = "none"
    /\ inserted = <<>>
    /\ CompUnused

\* The gateway's answers to the message sent last.
WdResps ==
    {[Msg(ty, GwAddr, i, Now, ToU16(m_msgId + U16 - 1)) EXCEPT !.pref = 100] :
        ty \in {"OK", "PROBE_RES"}, i \in FreshId(GwAddr)}

\* The steps of the watchdog thread, spurious wakeups apart.
WdSteps ==
    \/ WdCheck
    \/ WdWait
    \/ WdWoken
    \/ WdReturn
    \/ DscvLoop(WdThread)
    \/ SendPrepare(WdThread)
    \/ SendCall(WdThread, "SUCCESS")
    \/ BroadcastCollect(WdThread)
    \/ FinishDiscoverGateway(WdThread)
    \/ DscvDecide(WdThread, "SUCCESS")
    \/ DscvWait(WdThread)

NextWd ==
    \/ \E t \in Users : CallPubSubUnsubBulk(t, <<tA>>, <<>>, <<>>)
    \/ \E t \in Users : SendPrepare(t)
    \/ \E t \in Users, r \in SendRets : SendCall(t, r)
    \/ \E t \in Users : WaitReady(t)
    \/ \E t \in Users : WaitTimeout(t)
    \/ \E t \in Users : SendCollect(t)
    \/ \E t \in Users : Account(t)
    \/ \E t \in Users : FinishPubSubUnsub(t)
    \/ \E t \in Users : Return(t)
    \/ \E msg \in WdResps : RecvResp(msg)
    \/ WdSpurious
    \/ WdSteps

\* The watchdog thread is scheduled as long as it can run.
SpecWd == InitWd /\ [][NextWd]_vars /\ WF_vars(WdSteps)

\* sendLocal has just counted the outcome of the request of thread t.
Accounted(t) == usr[t].pc = "account" /\ usr'[t].pc = "finish"

\* C15: a failed checked request increments msgsFailCnt by one, a successful
\* one sets it to 0; after a failure with the counter at or above
\* trigMsgsFailCnt (or with a threshold of 0) the watchdog is signalled; the
\* caller itself never runs discovery; and a signalled watchdog eventually
\* runs discoverGateway on its own thread.
C15_FailuresWakeWatchdog ==
    /\ [][\A t \in Users :
            Accounted(t) =>
                IF usr'[t].err = "SUCCESS"
                THEN m_msgsFailCnt' = 0
                ELSE /\ m_msgsFailCnt' = m_msgsFailCnt + 1
                     /\ TrigDscv(m_msgsFailCnt', m_conf.trigMsgsFailCnt) => gwWdNotified'
                     /\ usr'[t].op # "discoverGateway"]_vars
    /\ gwWdNotified ~> (m_gwWdThread = "dscv")

----------------------------------------------------------------------------
(* SpecSync: one call of syncTime *)

SyncGws == {[addr |-> GwAddr, tsDiff |-> 3, channel |-> 0], NoGw}

\* The thresholds of the configuration: the defaults, "always" and 1; the
\* system time is synchronized or not.
SyncConfs ==
    {[DefaultConf EXCEPT !.trigMsgsFailCnt = m, !.trigTimeSyncNoRespCnt = s,
                         !.syncSystemTime = y] :
        m \in {0, 1, trigMsgsFailCnt}, s \in {0, 1, trigTimeSyncNoRespCnt},
        y \in BOOLEAN}

\* Values of a 16-bit failure counter: none, one, and the last one of its range.
SyncCounts == {0, 1, U16 - 1}

\* An initialized client with or without a gateway; the counters are at any
\* value earlier failed requests and time syncs can have left.
InitSync ==
    /\ m_cache = <<>>
    /\ m_tickNum = 1
    /\ m_maxAge = 3
    /\ ticksDone = 0
    /\ sinceIns = [a \in Addrs |-> [i \in PeerIds |-> -1]]
    /\ lastIns = NoCall
    /\ fnArgs = "none"
    /\ fnRet = NoRet
    /\ m_gw \in SyncGws
    /\ m_pendingMsgs = <<>>
    /\ m_subDB = EmptyTrie
    /\ m_msgId = 0
    /\ m_msgsFailCnt \in SyncCounts
    /\ m_timeSyncNoRespCnt \in SyncCounts
    /\ m_ignoreInvalidMsgTs = FALSE
    /\ dscvSyncMutex = "free"
    /\ gwWdNotified = FALSE
    /\ steadyUnits = 10
    /\ tickDue = FALSE
    /\ rcv = RcvIdle
    /\ reqCount = 0
    /\ accepted = {}
    /\ acc = NoAcc
    /\ lastRecv = NoRecv
    /\ usr = [t \in {"u1"} |-> Idle]
    /\ m_conf \in SyncConfs
    /\ llRecvCb = "recvLocal"
    /\ m_mutex = "free"
    /\ channels = <<>>
    /\ llChannel = 0
    /\ scanLog = <<>>
    /\ m_dscvLoopRun = TRUE
    /\ m_gwWdThread = "wait"
    /\ ctor = CtorDone
    /\ dtor = "none"
    /\ inserted = <<>>
    /\ CompUnused

\* The gateway's answers to the probe: its time difference, or a failure.
SyncResps ==
    {[Msg(ty, GwAddr, i, Now, ToU16(m_msgId + U16 - 1)) EXCEPT !.tsDiff = 9] :
        ty \in {"OK", "FAIL", "PROBE_RES"}, i \in FreshId(GwAddr)}

\* The first call of syncTime.
SyncOnce(t) == reqCount = 0 /\ CallSyncTime(t)

NextSync ==
    \/ SyncOnce("u1")
    \/ SendPrepare("u1")
    \/ \E r \in SendRets : SendCall("u1", r)
    \/ WaitReady("u1")
    \/ WaitTimeout("u1")
    \/ SendCollect("u1")
    \/ Account("u1")
    \/ FinishSyncTime("u1")
    \/ \E msg \in SyncResps : RecvResp(msg)

SpecSync == InitSync /\ [][NextSync]_vars

\* syncTime of thread t has returned.
DoneSync(t) == usr[t].pc = "done" /\ usr[t].op = "syncTime"

\* What syncTime does whatever its outcome: with no gateway NO_GATEWAY and
\* nothing sent, otherwise one unicast PROBE_REQ to the gateway; on a
\* PROBE_RES the response's tsDiff stored and timeSyncNoRespCnt 0; on failure
\* tsDiff as before and timeSyncNoRespCnt one higher (modulo 2^16).
SyncOutcome(t) ==
    LET c == usr[t]
    IN /\ IF c.gw = NoAddr
          THEN c.ret = "NO_GATEWAY" /\ scanLog = <<>>
          ELSE /\ Len(scanLog) = 1
               /\ scanLog[1].op = "sync"
               /\ c.dest = c.gw
               /\ c.type = "PROBE_REQ"
       /\ c.ret = "SUCCESS" =>
             /\ c.resp.type = "PROBE_RES"
             /\ m_gw.tsDiff = c.resp.tsDiff
             /\ m_timeSyncNoRespCnt = 0
       /\ c.ret # "SUCCESS" =>
             /\ m_gw.tsDiff = c.before.tsDiff
             /\ m_timeSyncNoRespCnt = (c.before.timeSyncNoRespCnt + 1) % U16

\* The no-response counter has reached its threshold, or the threshold is 0.
SyncCntReached ==
    \/ m_conf.trigTimeSyncNoRespCnt = 0
    \/ m_timeSyncNoRespCnt >= m_conf.trigTimeSyncNoRespCnt

\* The failed request took msgsFailCnt to its threshold, or that threshold is 0.
SyncMsgsReached(t) ==
    \/ m_conf.trigMsgsFailCnt = 0
    \/ (usr[t].before.msgsFailCnt + 1) % U16 >= m_conf.trigMsgsFailCnt

\* C16 as stated: syncTime sends one unicast PROBE_REQ to the gateway (none
\* and NO_GATEWAY without a gateway), stores tsDiff and zeroes the counter on
\* a PROBE_RES, and on failure keeps tsDiff, increments the counter and
\* signals the watchdog if and only if the counter has reached
\* trigTimeSyncNoRespCnt or that threshold is 0.
C16_SyncTimeOriginal ==
    \A t \in DOMAIN usr :
        DoneSync(t) =>
            /\ SyncOutcome(t)
            /\ usr[t].ret # "SUCCESS" => (gwWdNotified <=> SyncCntReached)

\* C16 amended: as above, but on failure the watchdog is signalled if and
\* only if timeSyncNoRespCnt has reached trigTimeSyncNoRespCnt (or that
\* threshold is 0) or the failed request has taken msgsFailCnt to
\* trigMsgsFailCnt (or that threshold is 0); the counter is incremented
\* modulo 2^16.
C16_SyncTime ==
    \A t \in DOMAIN usr :
        DoneSync(t) =>
            /\ SyncOutcome(t)
            /\ usr[t].ret = "SUCCESS" => ~gwWdNotified
            /\ usr[t].ret # "SUCCESS" =>
                  (gwWdNotified <=> (SyncCntReached \/ SyncMsgsReached(t)))

\* A time sync timed out with both counters below their thresholds and
\* signalled nothing.
C16_Witness ==
    \E t \in DOMAIN usr :
        /\ DoneSync(t)
        /\ usr[t].ret = "TIMEOUT"
        /\ m_timeSyncNoRespCnt = 1
        /\ m_conf.trigTimeSyncNoRespCnt = trigTimeSyncNoRespCnt
        /\ ~gwWdNotified

\* C30: with timeSync.syncSystemTime set, a syncTime that returned SUCCESS
\* has set the system time to the steady clock plus the tsDiff of the
\* PROBE_RES it received, which is the tsDiff it stored for the gateway;
\* otherwise it has not set the system time.
C30_SystemTime ==
    \A t \in DOMAIN usr :
        DoneSync(t) =>
            IF usr[t].ret = "SUCCESS" /\ m_conf.syncSystemTime
            THEN /\ usr[t].sysTime.set
                 /\ usr[t].sysTime.ms = usr[t].sysTime.steady + usr[t].resp.tsDiff
                 /\ usr[t].sysTime.ms = usr[t].sysTime.steady + m_gw.tsDiff
            ELSE ~usr[t].sysTime.set

----------------------------------------------------------------------------
(* SpecLife: destruction of a client whose watchdog thread is running *)

LifeUsers == {"u1"}

\* The client right after its constructor has spawned the watchdog thread;
\* one failed request wakes the watchdog.
InitLife ==
    /\ ClientFields({3}, {0}, {10}, {FALSE}, EmptyTrie)
    /\ usr = [t \in LifeUsers \cup {WdThread} |-> Idle]
    /\ m_conf = [DefaultConf EXCEPT !.trigMsgsFailCnt = 1]
    /\ llRecvCb = "recvLocal"
    /\ m_mutex = "free"
    /\ channels = <<>>
    /\ llChannel = 0
    /\ scanLog = <<>>
    /\ m_dscvLoopRun = TRUE
    /\ m_gwWdThread = "check"
    /\ ctor = CtorDone
    /\ dtor = "none"
    /\ inserted = <<>>
    /\ CompUnused

\* The steps of the thread that destroys the client.
DtorSteps ==
    \/ DtorStart
    \/ DtorNotify
    \/ DtorJoin
    \/ DtorUnsetRecvCb
    \/ DtorFinish

\* The application calls the client only before it destroys it.
LifeCall(t) == dtor = "none" /\ CallPubSubUnsubBulk(t, <<tA>>, <<>>, <<>>)

NextLife ==
    \/ \E t \in LifeUsers : LifeCall(t)
    \/ \E t \in LifeUsers : SendPrepare(t)
    \/ \E t \in LifeUsers, r \in SendRets : SendCall(t, r)
    \/ \E t \in LifeUsers : WaitReady(t)
    \/ \E t \in LifeUsers : WaitTimeout(t)
    \/ \E t \in LifeUsers : SendCollect(t)
    \/ \E t \in LifeUsers : Account(t)
    \/ \E t \in LifeUsers : FinishPubSubUnsub(t)
    \/ \E t \in LifeUsers : Return(t)
    \/ \E msg \in WdResps : RecvResp(msg)
    \/ WdSpurious
    \/ WdSteps
    \/ DtorSteps

\* The watchdog thread and the destroying thread are scheduled as long as
\* they can run; a spurious wakeup of the watchdog is possible, never due.
SpecLife == InitLife /\ [][NextLife]_vars /\ WF_vars(WdSteps) /\ WF_vars(DtorSteps)

\* C17: destruction of a client always completes: once the destructor has
\* started, the watchdog thread exits, the join returns and the destructor
\* finishes, wherever the watchdog thread was (in discoverGateway, in its
\* backoff sleep, or between its flag check and its wait).
C17_DestructionCompletes ==
    /\ (dtor # "none") ~> (m_gwWdThread = "exited")
    /\ (dtor # "none") ~> (dtor = "done")

\* The frame of a thread that is inside discoverGateway.
InDscv(frame) == frame.pc # "idle" /\ frame.op = "discoverGateway"

\* C29: while m_dscvLoopRun is cleared no discoverGateway begins and none
\* starts a scan attempt, and a call in its backoff sleep leaves it only by
\* returning SUCCESS, with no gateway set.
C29_NoAttemptAfterCancel ==
    [][~m_dscvLoopRun =>
          \A t \in DOMAIN usr :
              InDscv(usr'[t]) =>
                 /\ InDscv(usr[t])
                 /\ usr'[t].dscv.scans = usr[t].dscv.scans
                 /\ usr[t].pc = "dscv_wait" =>
                       \/ usr'[t] = usr[t]
                       \/ /\ usr'[t].pc = "done"
                          /\ usr'[t].ret = "SUCCESS"
                          /\ m_gw'.addr = NoAddr]_vars

----------------------------------------------------------------------------
(* SpecCtor: construction of a client *)

\* Retained data with and without a gateway, with and without a channel.
CtorRetained ==
    {[NoRetained EXCEPT !.gw = [addr |-> a, tsDiff |-> 0, channel |-> c]] :
        a \in {GwAddr, NoAddr}, c \in {0, 74}}

\* The members as their initializers leave them; the constructor is about to
\* run on the main thread and no watchdog thread exists.
InitCtor ==
    /\ m_cache = <<>>
    /\ m_tickNum = 1
    /\ m_maxAge = 3
    /\ ticksDone = 0
    /\ sinceIns = [a \in Addrs |-> [i \in PeerIds |-> -1]]
    /\ lastIns = NoCall
    /\ fnArgs = "none"
    /\ fnRet = NoRet
    /\ m_gw = NoGw
    /\ m_pendingMsgs = <<>>
    /\ m_subDB = EmptyTrie
    /\ m_msgId = 0
    /\ m_msgsFailCnt = 0
    /\ m_timeSyncNoRespCnt = 0
    /\ m_ignoreInvalidMsgTs = FALSE
    /\ dscvSyncMutex = "free"
    /\ gwWdNotified = FALSE
    /\ steadyUnits = 10
    /\ tickDue = FALSE
    /\ rcv = RcvIdle
    /\ reqCount = 0
    /\ accepted = {}
    /\ acc = NoAcc
    /\ lastRecv = NoRecv
    /\ usr = [t \in {MainThread} |-> Idle]
    /\ \E thres \in {1, 2} : m_conf = [DefaultConf EXCEPT !.initialDscvFailThres = thres]
    /\ llRecvCb = "null"
    /\ m_mutex = "free"
    /\ channels \in {<<>>, <<39>>}
    /\ llChannel = 0
    /\ scanLog = <<>>
    /\ m_dscvLoopRun = TRUE
    /\ m_gwWdThread = "unborn"
    /\ \E rd \in CtorRetained :
          ctor = [pc |-> "start", rd |-> rd, syncRet |-> "NONE", dscvRet |-> "NONE"]
    /\ dtor = "none"
    /\ inserted = <<>>
    /\ CompUnused

\* The gateway's answers to the probe sent last.
CtorResps ==
    {[Msg(ty, GwAddr, i, Now, ToU16(m_msgId + U16 - 1)) EXCEPT !.pref = 100] :
        ty \in {"FAIL", "PROBE_RES"}, i \in FreshId(GwAddr)}

NextCtor ==
    \/ CtorBegin
    \/ \E r \in SendRets : CtorSetChannel(r)
    \/ CtorSyncTime
    \/ CtorSynced
    \/ CtorDiscover
    \/ CtorDiscovered
    \/ CtorFinish
    \/ SendPrepare(MainThread)
    \/ \E r \in SendRets : SendCall(MainThread, r)
    \/ WaitReady(MainThread)
    \/ WaitTimeout(MainThread)
    \/ SendCollect(MainThread)
    \/ Account(MainThread)
    \/ FinishSyncTime(MainThread)
    \/ DscvLoop(MainThread)
    \/ \E r \in SendRets : DscvSetChannel(MainThread, r)
    \/ BroadcastCollect(MainThread)
    \/ FinishDiscoverGateway(MainThread)
    \/ \E r \in SendRets : DscvDecide(MainThread, r)
    \/ DscvWait(MainThread)
    \/ \E msg \in CtorResps : RecvResp(msg)
    \/ WdCheck
    \/ WdWait

SpecCtor == InitCtor /\ [][NextCtor]_vars

\* The retained data hold a gateway, and a channel to restore.
CtorRestores == ctor.rd.gw.addr # NoAddr
CtorHasChannel == ctor.rd.gw.channel # 0

\* The place of the sync probe in the log of the local layer.
CtorSyncIdx == IF CtorHasChannel THEN 2 ELSE 1

\* C18: with retained data holding a gateway the constructor first sets the
\* retained channel (only if non-zero), then runs one syncTime with the
\* retained gateway; if both succeed nothing is broadcast; if setChannel
\* fails no sync probe is sent; if either fails
\* discoverGateway(initialDscvFailThres) is run; construction fails if and
\* only if that discovery fails; and the watchdog thread exists only after
\* initialisation has succeeded.
C18_Construction ==
    /\ CtorRestores =>
          /\ (CtorHasChannel /\ ctor.pc \notin {"start", "channel"}) =>
                /\ Len(scanLog) >= 1
                /\ scanLog[1].op = "setChannel"
                /\ scanLog[1].ch = ctor.rd.gw.channel
          /\ (~CtorHasChannel /\ scanLog # <<>>) => scanLog[1].op = "sync"
          /\ \A i \in 1..Len(scanLog) :
                /\ scanLog[i].op = "sync" =>
                      /\ i = CtorSyncIdx
                      /\ CtorHasChannel => scanLog[1].ret = "SUCCESS"
                /\ (scanLog[i].op = "setChannel" /\ i > 1) => ctor.syncRet # "SUCCESS"
          /\ (ctor.pc \notin {"start", "channel", "sync", "syncing"}
                /\ (CtorHasChannel => scanLog[1].ret = "SUCCESS")) =>
                /\ Len(scanLog) >= CtorSyncIdx
                /\ scanLog[CtorSyncIdx].op = "sync"
                /\ ctor.syncRet # "NONE"
          /\ (ctor.pc = "syncing" /\ usr[MainThread].pc \notin {"idle", "prepare"}) =>
                /\ usr[MainThread].op = "syncTime"
                /\ usr[MainThread].dest = ctor.rd.gw.addr
          /\ ctor.syncRet = "SUCCESS" =>
                /\ \A i \in 1..Len(scanLog) : scanLog[i].op # "probe"
                /\ ctor.dscvRet = "NONE"
                /\ ctor.pc \in {"initialized", "done"}
          /\ ctor.pc = "discovering" =>
                /\ usr[MainThread].op = "discoverGateway"
                /\ usr[MainThread].dscv.maxAttempts = m_conf.initialDscvFailThres
          /\ (ctor.pc \in {"initialized", "done", "thrown"} /\ ctor.syncRet # "SUCCESS") =>
                ctor.dscvRet # "NONE"
    /\ ctor.pc = "thrown" <=> ctor.dscvRet \notin {"NONE", "SUCCESS"}
    /\ m_gwWdThread # "unborn" =>
          /\ ctor.pc = "done"
          /\ ctor.syncRet = "SUCCESS" \/ ctor.dscvRet = "SUCCESS"

\* The retained channel could not be set: no sync probe was sent, discovery
\* found the gateway and the watchdog thread was started.
C18_Witness ==
    /\ CtorRestores
    /\ CtorHasChannel
    /\ scanLog # <<>>
    /\ scanLog[1].ret # "SUCCESS"
    /\ ctor.pc = "done"
    /\ ctor.dscvRet = "SUCCESS"
    /\ m_gwWdThread = "wait"

\* C36: the local layer holds the client's receive callback only while a
\* Client object is alive: it is cleared when the destructor has returned, and
\* it is not registered any more when the constructor has thrown because the
\* initial discovery failed.
C36_RecvCbOnlyWhileAlive ==
    (ctor.pc = "thrown" \/ dtor = "done") => llRecvCb = "null"

\* The destructor's half alone: a destroyed client has no callback on the
\* local layer.
DtorClearsRecvCb == dtor = "done" => llRecvCb = "null"

----------------------------------------------------------------------------
(* SpecTrie: insert, remove and find on a WildcardTrie *)

\* Keys: a, /a, #, /#, +, a/# and a/+/b.
TrieKeys ==
    {<<"a">>, <<"/", "a">>, <<"#">>, <<"/", "#">>, <<"+">>, <<"a", "/", "#">>,
     <<"a", "/", "+", "/", "b">>}

\* Wildcard-free queries: the empty one, a, /a, a/x, a/x/y, a/x/b and a/x/y/b.
TrieQueries ==
    {<<>>, <<"a">>, <<"/", "a">>, <<"a", "/", "x">>, <<"a", "/", "x", "/", "y">>,
     <<"a", "/", "x", "/", "b">>, <<"a", "/", "x", "/", "y", "/", "b">>}

TrieValues == {"cb1", "cb2"}

\* An empty trie.
InitTrie == ClientStart({3}, {0}, {10}, {FALSE}, EmptyTrie)

\* What a call on the trie leaves alone.
trieFrame == <<cacheVars, cacheHist, m_gw, m_pendingMsgs, m_msgId, m_msgsFailCnt,
               m_timeSyncNoRespCnt, m_ignoreInvalidMsgTs, dscvSyncMutex, gwWdNotified,
               clockVars, threadVars, histVars, m_conf, m_mutex, llRecvCb, compVars, channels,
               m_dscvLoopRun,
               dtor,
               siteVars>>

\* insert(key, value)
TrieInsert(key, value) ==
    /\ m_subDB' = WildcardTrie_insert(m_subDB, key, value)
    /\ inserted' = [k \in DOMAIN inserted \cup {key} |->
                       IF k = key THEN value ELSE inserted[k]]
    /\ fnArgs' = [op |-> "insert", key |-> key, value |-> value]
    /\ fnRet' = [done |-> TRUE, val |-> TRUE]
    /\ UNCHANGED trieFrame

\* remove(key)
TrieRemove(key) ==
    LET r == WildcardTrie_remove(m_subDB, key)
    IN /\ m_subDB' = r.trie
       /\ inserted' = IF r.ret THEN [k \in DOMAIN inserted \ {key} |-> inserted[k]]
                       ELSE inserted
       /\ fnArgs' = [op |-> "remove", key |-> key, value |-> NoCb, trie |-> m_subDB,
                      had |-> inserted]
       /\ fnRet' = [done |-> TRUE, val |-> r.ret]
       /\ UNCHANGED trieFrame

\* find(key)
TrieFind(key) ==
    /\ fnArgs' = [op |-> "find", key |-> key, value |-> NoCb]
    /\ fnRet' = [done |-> TRUE, val |-> WildcardTrie_find(m_subDB, key)]
    /\ UNCHANGED <<trieFrame, m_subDB, inserted>>

NextTrie ==
    \/ \E key \in TrieKeys, value \in TrieValues : TrieInsert(key, value)
    \/ \E key \in TrieKeys : TrieRemove(key)
    \/ \E key \in TrieKeys \cup TrieQueries : TrieFind(key)

SpecTrie == InitTrie /\ [][NextTrie]_vars

\* The last call on the trie.
TrieCalled(op) == fnRet.done /\ fnArgs.op = op

\* find(key) on the trie as it is contains the entry (key, value).
TrieFinds(key, value) ==
    LET found == WildcardTrie_find(m_subDB, key)
    IN key \in DOMAIN found /\ found[key] = value

\* C19: after insert(k, v), find(k) contains the entry (k, v), also when the
\* key was stored before with another value and whatever levels the key has;
\* after a successful remove(k), find(k) has no entry with the pattern k.
C19_InsertFindRemove ==
    /\ TrieCalled("insert") => TrieFinds(fnArgs.key, fnArgs.value)
    /\ (TrieCalled("remove") /\ fnRet.val) =>
          fnArgs.key \notin DOMAIN WildcardTrie_find(m_subDB, fnArgs.key)

\* The stored keys that match a query level by level.
TrieMatching(query) ==
    {k \in DOMAIN inserted : Matches(splitToLevels(k), splitToLevels(query))}

\* C20: find(q) for a wildcard-free q returns exactly the stored patterns
\* that match q level by level, each with its value, where "+" stands for
\* exactly one level and a final "#" for one or more remaining levels.
C20_FindReturnsMatches ==
    (TrieCalled("find") /\ fnArgs.key \in TrieQueries) =>
        /\ DOMAIN fnRet.val = TrieMatching(fnArgs.key)
        /\ \A k \in DOMAIN fnRet.val : fnRet.val[k] = inserted[k]

\* The trie that holds exactly the entries of a map key -> value.
RECURSIVE TrieOf(_)
TrieOf(entries) ==
    IF DOMAIN entries = {} THEN EmptyTrie
    ELSE LET k == CHOOSE x \in DOMAIN entries : TRUE
         IN WildcardTrie_insert(TrieOf([x \in DOMAIN entries \ {k} |-> entries[x]]),
                                k, entries[k])

\* What holds of remove as stated and as amended: it returns true exactly
\* when the key is stored; a failed remove changes nothing; after a
\* successful one no node other than the root is left without value and
\* without children; and with no key stored the trie is empty.
RemoveContract ==
    /\ TrieCalled("remove") =>
          /\ fnRet.val <=> fnArgs.key \in DOMAIN fnArgs.had
          /\ ~fnRet.val => m_subDB = fnArgs.trie
          /\ fnRet.val =>
                \A p \in DOMAIN m_subDB \ {<<>>} :
                    m_subDB[p].isLeaf \/ Childs(m_subDB, p) # {}
    /\ inserted = <<>> => WildcardTrie_empty(m_subDB)

\* C21 as stated: remove(k) returns true exactly for a stored key, a failed
\* remove changes nothing, a successful remove leaves the find result of
\* every other stored key unchanged and prunes the ancestors left without
\* value and children, so that the trie is empty once every key is removed.
C21_RemoveOriginal ==
    /\ RemoveContract
    /\ (TrieCalled("remove") /\ fnRet.val) =>
          \A k \in DOMAIN inserted :
              WildcardTrie_find(m_subDB, k) = WildcardTrie_find(fnArgs.trie, k)

\* C21 amended: as above, but after a successful remove(k) every find
\* returns what it returns on a trie that holds only the other stored
\* entries: the entry of k is gone, also from the find results of the keys
\* that the pattern k matches, and nothing else has changed.
C21_Remove ==
    /\ RemoveContract
    /\ (TrieCalled("remove") /\ fnRet.val) =>
          /\ DOMAIN inserted = DOMAIN fnArgs.had \ {fnArgs.key}
          /\ \A q \in TrieKeys \cup TrieQueries :
                WildcardTrie_find(m_subDB, q) = WildcardTrie_find(TrieOf(inserted), q)

\* a/+/b has been removed while a and a/# stay stored: its nodes + and b
\* are pruned, the leaf a and its child # are kept.
C21_Witness ==
    /\ TrieCalled("remove")
    /\ fnRet.val
    /\ fnArgs.key = <<"a", "/", "+", "/", "b">>
    /\ DOMAIN inserted = {<<"a">>, <<"a", "/", "#">>}
    /\ DOMAIN m_subDB = {<<>>, <<<<"a">>>>, <<<<"a">>, <<"#">>>>}

----------------------------------------------------------------------------
(* SpecEach: insert, remove and forEach on a WildcardTrie *)

\* WildcardTrie::forEach call by call: the BFS visits every node once and
\* calls the function for each leaf with the key string built on the way
\* down and the node's value.
forEachCalls(trie) ==
    [p \in {q \in DOMAIN trie : trie[q].isLeaf} |->
        [key |-> NodeKey(p), value |-> trie[p].value]]

\* forEach(f)
TrieForEach ==
    /\ fnArgs' = [op |-> "forEach", key |-> <<>>, value |-> NoCb]
    /\ fnRet' = [done |-> TRUE, val |-> forEachCalls(m_subDB)]
    /\ UNCHANGED <<trieFrame, m_subDB, inserted>>

NextEach ==
    \/ \E key \in TrieKeys, value \in TrieValues : TrieInsert(key, value)
    \/ \E key \in TrieKeys : TrieRemove(key)
    \/ TrieForEach

SpecEach == InitTrie /\ [][NextEach]_vars

\* C32: forEach calls the function exactly once for every stored key, with
\* the key as it was inserted and its current value, and for no other key.
C32_ForEachStoredKeys ==
    TrieCalled("forEach") =>
        LET calls == fnRet.val
        IN /\ \A k \in DOMAIN inserted :
                  /\ Cardinality({c \in DOMAIN calls : calls[c].key = k}) = 1
                  /\ \A c \in DOMAIN calls :
                         calls[c].key = k => calls[c].value = inserted[k]
           /\ \A c \in DOMAIN calls : calls[c].key \in DOMAIN inserted

----------------------------------------------------------------------------
(* SpecLit: find with queries that contain wildcard tokens *)

\* Stored patterns without an empty level: a/#, a/b, a/+/b, a/+ and #.
LitKeys ==
    {<<"a", "/", "#">>, <<"a", "/", "b">>, <<"a", "/", "+", "/", "b">>,
     <<"a", "/", "+">>, <<"#">>}

\* Queries: a/#/b, a/x/b, a/+, a/#, a/b, #/x, + and a/+/b.
LitQueries ==
    {<<"a", "/", "#", "/", "b">>, <<"a", "/", "x", "/", "b">>, <<"a", "/", "+">>,
     <<"a", "/", "#">>, <<"a", "/", "b">>, <<"#", "/", "x">>, <<"+">>,
     <<"a", "/", "+", "/", "b">>}

NextLit ==
    \/ \E key \in LitKeys, value \in TrieValues : TrieInsert(key, value)
    \/ \E key \in LitKeys : TrieRemove(key)
    \/ \E key \in LitQueries : TrieFind(key)

SpecLit == InitTrie /\ [][NextLit]_vars

\* C33: find takes the wildcard tokens of a query as literal levels: it
\* returns exactly the stored patterns that match the query's levels by the
\* rule for wildcard-free queries ("+" stored matches any one level, a final
\* "#" stored matches one or more remaining levels), each with its value; so
\* a/# stored is returned for a/#/b and a/b stored is not returned for a/+.
C33_QueryWildcardsLiteral ==
    TrieCalled("find") =>
        /\ DOMAIN fnRet.val = TrieMatching(fnArgs.key)
        /\ \A k \in DOMAIN fnRet.val : fnRet.val[k] = inserted[k]

----------------------------------------------------------------------------
(* SpecBroker: LocalBroker, the in-process remote layer *)

\* Patterns: a, a/b, +, a/+, a/# and #.
BrokerPatterns ==
    {<<"a">>, <<"a", "/", "b">>, <<"+">>, <<"a", "/", "+">>, <<"a", "/", "#">>, <<"#">>}

\* Topics of published messages: a, b, a/b, a/x/y and x/y.
BrokerTopics ==
    {<<"a">>, <<"b">>, <<"a", "/", "b">>, <<"a", "/", "x", "/", "y">>, <<"x", "/", "y">>}

\* What the receive callback may return.
CbRets == {"SUCCESS", "GENERIC_FAILURE"}

\* A new broker: nothing subscribed, no receive callback.
InitBroker ==
    /\ ClientFields({3}, {0}, {10}, {FALSE}, EmptyTrie)
    /\ usr = [t \in Users |-> Idle]
    /\ m_conf = DefaultConf
    /\ llRecvCb = "recvLocal"
    /\ m_mutex = "free"
    /\ channels = <<>>
    /\ llChannel = 0
    /\ scanLog = <<>>
    /\ m_dscvLoopRun = TRUE
    /\ m_gwWdThread = "wait"
    /\ ctor = CtorDone
    /\ dtor = "none"
    /\ inserted = <<>>
    /\ m_subs = EmptyTrie
    /\ m_recvCb = "null"
    /\ timer = NoTimer

\* What a call on the broker leaves alone.
brokerFrame == <<cacheVars, cacheHist, clientVars, clockVars, threadVars, histVars, m_conf,
                 m_mutex, llRecvCb,
                 channels, m_dscvLoopRun, dtor, siteVars, timer>>

\* A faulty publish: the callback is called once for each matching pattern.
LocalBroker_publish_fanout(subs, recvCb, topic, cbRet) ==
    LET n == Cardinality(DOMAIN WildcardTrie_find(subs, topic))
    IN IF n > 0 /\ recvCb # "null"
       THEN [calls |-> n, ret |-> cbRet]
       ELSE [calls |-> 0, ret |-> "SUCCESS"]

\* LocalBroker::publish: the number of calls of m_recvCb and the result, for
\* a callback that returns cbRet.
LocalBroker_publish(subs, recvCb, topic, cbRet) ==
    LET subscribed == DOMAIN WildcardTrie_find(subs, topic) # {}
    IN IF subscribed /\ recvCb # "null"
       THEN [calls |-> 1, ret |-> cbRet]
       ELSE [calls |-> 0, ret |-> "SUCCESS"]

\* IRemoteLayer::setRecvCb
BrokerSetRecvCb(cb) ==
    /\ m_recvCb' = cb
    /\ fnArgs' = [op |-> "setRecvCb"]
    /\ fnRet' = [done |-> TRUE, val |-> "NONE", calls |-> 0]
    /\ UNCHANGED <<brokerFrame, m_subs, inserted>>

\* LocalBroker::publish; the history is the set of subscribed patterns.
BrokerPublish(topic, cbRet) ==
    LET r == LocalBroker_publish(m_subs, m_recvCb, topic, cbRet)
    IN /\ fnArgs' = [op |-> "publish", topic |-> topic, cbRet |-> cbRet]
       /\ fnRet' = [done |-> TRUE, val |-> r.ret, calls |-> r.calls]
       /\ UNCHANGED <<brokerFrame, m_subs, m_recvCb, inserted>>

\* LocalBroker::subscribe
BrokerSubscribe(topic) ==
    /\ m_subs' = WildcardTrie_insert(m_subs, topic, TRUE)
    /\ inserted' = [k \in DOMAIN inserted \cup {topic} |-> TRUE]
    /\ fnArgs' = [op |-> "subscribe", topic |-> topic]
    /\ fnRet' = [done |-> TRUE, val |-> "SUCCESS", calls |-> 0]
    /\ UNCHANGED <<brokerFrame, m_recvCb>>

\* LocalBroker::unsubscribe; the history drops the pattern whatever the
\* trie answers.
BrokerUnsubscribe(topic) ==
    LET r == WildcardTrie_remove(m_subs, topic)
    IN /\ m_subs' = r.trie
       /\ inserted' = [k \in DOMAIN inserted \ {topic} |-> TRUE]
       /\ fnArgs' = [op |-> "unsubscribe", topic |-> topic, subs |-> m_subs,
                      had |-> DOMAIN inserted]
       /\ fnRet' = [done |-> TRUE, val |-> IF r.ret THEN "SUCCESS" ELSE "NOT_FOUND",
                     calls |-> 0]
       /\ UNCHANGED <<brokerFrame, m_recvCb>>

NextBroker ==
    \/ \E cb \in {"null", "set"} : BrokerSetRecvCb(cb)
    \/ \E topic \in BrokerTopics, cbRet \in CbRets : BrokerPublish(topic, cbRet)
    \/ \E topic \in BrokerPatterns : BrokerSubscribe(topic)
    \/ \E topic \in BrokerPatterns : BrokerUnsubscribe(topic)

SpecBroker == InitBroker /\ [][NextBroker]_vars

\* The last call on the broker.
BrokerCalled(op) == fnRet.done /\ fnArgs.op = op

\* Some subscribed pattern matches the topic.
BrokerSubscribed(topic) ==
    \E p \in DOMAIN inserted : Matches(splitToLevels(p), splitToLevels(topic))

\* C22: publish calls the receive callback exactly once and returns its
\* result if at least one subscribed pattern matches the topic, however many
\* do, and calls nothing and returns SUCCESS otherwise (also when no callback
\* is set); the subscriptions are a set: a pattern subscribed twice and
\* unsubscribed once is not subscribed, and unsubscribing a pattern that is
\* not subscribed returns NOT_FOUND and changes nothing.
C22_BrokerPublish ==
    /\ BrokerCalled("publish") =>
          IF BrokerSubscribed(fnArgs.topic) /\ m_recvCb # "null"
          THEN fnRet.calls = 1 /\ fnRet.val = fnArgs.cbRet
          ELSE fnRet.calls = 0 /\ fnRet.val = "SUCCESS"
    /\ BrokerCalled("unsubscribe") =>
          /\ fnRet.val = (IF fnArgs.topic \in fnArgs.had THEN "SUCCESS" ELSE "NOT_FOUND")
          /\ fnRet.val = "NOT_FOUND" => m_subs = fnArgs.subs
    /\ BrokerCalled("subscribe") => fnRet.val = "SUCCESS"

\* A message on a/b was published with a, a/b, a/+, a/# and # subscribed:
\* four patterns match, the callback ran once and its error was returned.
C22_Witness ==
    /\ BrokerCalled("publish")
    /\ fnArgs.topic = <<"a", "/", "b">>
    /\ {<<"a", "/", "b">>, <<"a", "/", "+">>, <<"a", "/", "#">>, <<"#">>}
          \subseteq DOMAIN inserted
    /\ fnRet.calls = 1
    /\ fnRet.val = "GENERIC_FAILURE"

----------------------------------------------------------------------------
(* SpecRssi: discovery with responses that carry an RSSI *)

\* INode::buildReportRssiTopic with the default NodeConfig: base topic,
\* RSSI subtopic and the peer's address, joined by the level separator.
buildReportRssiTopic(peer) == <<"_report", "/", "rssi", "/", peer>>

\* The configurations explored: RSSI reporting on (the default) and off.
RssiConfs == {DefaultConf, [DefaultConf EXCEPT !.reporting.rssiOnGwDscv = FALSE]}

InitRssi ==
    /\ ClientFields({3}, {0}, {10}, {FALSE}, EmptyTrie)
    /\ usr = [t \in Users |-> Idle]
    /\ m_conf \in RssiConfs
    /\ llRecvCb = "recvLocal"
    /\ m_mutex = "free"
    /\ channels \in ScanChannels
    /\ llChannel = 0
    /\ scanLog = <<>>
    /\ m_dscvLoopRun = TRUE
    /\ m_gwWdThread = "wait"
    /\ ctor = CtorDone
    /\ dtor = "none"
    /\ inserted = <<>>
    /\ CompUnused

\* Probe responses to the probe sent last, received with or without an RSSI.
RssiValues == {MSG_RSSI_UNKNOWN, -50}
RssiResps ==
    UNION {{[Msg("PROBE_RES", a, i, Now, ToU16(m_msgId + U16 - 1)) EXCEPT
                !.pref = 100, !.rssi = rs] :
               i \in FreshId(a), rs \in RssiValues} : a \in Addrs}

NextRssi ==
    \/ \E t \in Users : ScanOnce(t)
    \/ \E t \in Users : DscvLoop(t)
    \/ \E t \in Users, r \in SendRets : DscvSetChannel(t, r)
    \/ \E t \in Users : SendPrepare(t)
    \/ \E t \in Users, r \in SendRets : SendCall(t, r)
    \/ \E t \in Users : BroadcastCollect(t)
    \/ \E t \in Users : FinishDiscoverGateway(t)
    \/ \E t \in Users, r \in SendRets : DscvDecide(t, r)
    \/ \E t \in Users : DscvWait(t)
    \/ \E t \in Users : Return(t)
    \/ \E msg \in RssiResps : RecvResp(msg)

SpecRssi == InitRssi /\ [][NextRssi]_vars

\* The probes thread t handed to the local layer, and the PubData the report
\* of a discovery is to carry: one per response collected with a known RSSI.
ProbesSent(t) ==
    Cardinality({j \in 1..Len(scanLog) : scanLog[j].t = t /\ scanLog[j].op = "probe"})
RssiPubs(seen) ==
    {[topic |-> buildReportRssiTopic(seen[i].addr), payload |-> ToString(seen[i].rssi)] :
        i \in {j \in 1..Len(seen) : seen[j].rssi # MSG_RSSI_UNKNOWN}}

\* C23: with reporting.rssiOnGwDscv set, a discoverGateway that succeeded
\* after collecting responses with a known RSSI has sent exactly one more
\* message than its probes, a PUB_SUB_UNSUB to the chosen gateway with one
\* PubData per such responder; after a discovery that failed or collected no
\* RSSI nothing but the probes was sent; and a discovery that chose a gateway
\* returns SUCCESS.
C23_RssiReported ==
    \A t \in Users :
        DoneDscv(t) =>
            LET seen == usr[t].dscv.seen
                pubs == RssiPubs(seen)
                ok == usr[t].ret = "SUCCESS"
            IN /\ (m_conf.reporting.rssiOnGwDscv /\ ok /\ pubs # {}) =>
                      /\ reqCount = ProbesSent(t) + 1
                      /\ usr[t].type = "PUB_SUB_UNSUB"
                      /\ usr[t].dest = m_gw.addr
                      /\ {usr[t].pubs[i] : i \in 1..Len(usr[t].pubs)} = pubs
                      /\ Len(usr[t].pubs) = Cardinality(pubs)
               /\ (~ok \/ pubs = {}) => reqCount = ProbesSent(t)
               /\ m_gw.addr # NoAddr => ok

----------------------------------------------------------------------------
(* SpecPeer: LocalPeer::retain and RetainedLocalPeer::unretain *)

\* The size of RetainedLocalPeer::addr, and the longest address explored.
RetainedAddrSize == 32
MaxAddrLen == 34

\* A default RetainedLocalPeer: the array is zero-initialized.
NoRetainedPeer ==
    [addr |-> [i \in 1..RetainedAddrSize |-> 0], addrLen |-> 0, channel |-> 0]

\* LocalPeer::retain: the first min(size, 32) bytes are copied into the array,
\* whose other bytes stay as they were; sizeToCopy is a uint8_t.
LocalPeer_retain(peer) ==
    LET sizeToCopy == Min(Len(peer.addr), RetainedAddrSize) % 256
    IN [addr |-> [i \in 1..RetainedAddrSize |->
                     IF i <= sizeToCopy THEN peer.addr[i] ELSE NoRetainedPeer.addr[i]],
        addrLen |-> sizeToCopy,
        channel |-> peer.channel]

\* RetainedLocalPeer::unretain: the first addrLen bytes of the array and the
\* channel; the other members of the LocalPeer have their defaults.
RetainedLocalPeer_unretain_whole(rlp) ==
    [addr |-> rlp.addr, channel |-> rlp.channel,
     pref |-> PREF_UNKNOWN, rssi |-> RSSI_UNKNOWN, tsDiff |-> 0]
RetainedLocalPeer_unretain(rlp) ==
    [addr |-> SubSeq(rlp.addr, 1, rlp.addrLen), channel |-> rlp.channel,
     pref |-> PREF_UNKNOWN, rssi |-> RSSI_UNKNOWN, tsDiff |-> 0]

\* The peers explored: addresses of every length up to MaxAddrLen, of equal
\* bytes or of bytes that differ (and wrap around 255), on three channels.
PeerBytes(len, first, step) == [i \in 1..len |-> (first + (i - 1) * step) % 256]
PeerInputs ==
    {[addr |-> PeerBytes(len, first, step), channel |-> ch,
      pref |-> 100, rssi |-> -50, tsDiff |-> 7] :
        len \in 0..MaxAddrLen, first \in {0, 1, 250}, step \in {0, 1},
        ch \in {0, 100, U16 - 1}}

InitPeer == ClientStart({3}, {0}, {10}, {FALSE}, EmptyTrie)

\* peer.retain(), and unretain() of what it returned.
PeerRetain(peer) ==
    /\ ~fnRet.done
    /\ fnArgs' = [op |-> "retain", peer |-> peer, rlp |-> NoRetainedPeer]
    /\ fnRet' = [done |-> TRUE, val |-> LocalPeer_retain(peer)]
    /\ UNCHANGED <<trieFrame, m_subDB, inserted>>

PeerUnretain ==
    /\ fnRet.done
    /\ fnArgs.op = "retain"
    /\ fnArgs' = [fnArgs EXCEPT !.op = "unretain", !.rlp = fnRet.val]
    /\ fnRet' = [done |-> TRUE, val |-> RetainedLocalPeer_unretain(fnRet.val)]
    /\ UNCHANGED <<trieFrame, m_subDB, inserted>>

NextPeer ==
    \/ \E peer \in PeerInputs : PeerRetain(peer)
    \/ PeerUnretain

SpecPeer == InitPeer /\ [][NextPeer]_vars

\* A retain followed by an unretain has just been made.
PeerRoundTrip == fnRet.done /\ fnArgs.op = "unretain"

\* C24: after p.retain().unretain() the address is the first min(len, 32)
\* bytes of p's, the retained addrLen is min(len, 32) and the channel is p's;
\* address and channel are both unchanged exactly when p's address has at
\* most 32 bytes.
C24_RetainRoundTrip ==
    PeerRoundTrip =>
        LET p == fnArgs.peer
            n == IF Len(p.addr) < 32 THEN Len(p.addr) ELSE 32
        IN /\ Len(fnRet.val.addr) = n
           /\ \A i \in 1..n : fnRet.val.addr[i] = p.addr[i]
           /\ fnArgs.rlp.addrLen = n
           /\ fnRet.val.channel = p.channel
           /\ (fnRet.val.addr = p.addr /\ fnRet.val.channel = p.channel)
                 <=> Len(p.addr) <= 32

\* Round trips of an address shorter than the array, one that fills it and
\* a longer one have been made.
C24_Witness ==
    /\ PeerRoundTrip
    /\ Len(fnArgs.peer.addr) = 34
    /\ Len(fnRet.val.addr) = 32
    /\ fnArgs.peer.addr[33] # 0
    /\ fnArgs.peer.channel = 100

----------------------------------------------------------------------------
(* SpecTimer: Timer, its handler thread and setNextExec *)

\* The last instant explored, the most calls of setNextExec, and the
\* intervals.
MaxNow == 8
MaxSets == 2
TimerIntervals == {2, 3}

\* Time is steady_clock in units of the interval's resolution. `calls` holds
\* the instants at which m_cb was invoked; `anchor` is history: the instant
\* at which the next invocation is due by the last creation or setNextExec,
\* and the number of invocations made before it; `stale` is m_nextExec as
\* the callback in progress found it, and `raced` whether setNextExec ran on
\* another thread while the callback was in progress; `sets` counts the
\* calls of setNextExec.
NoAnchor == [at |-> 0, idx |-> 0]
TimerUnborn ==
    [pc |-> "none", now |-> 0, m_interval |-> 0, m_nextExec |-> 0, m_run |-> FALSE,
     calls |-> <<>>, anchor |-> NoAnchor, stale |-> 0, raced |-> FALSE, sets |-> 0,
     dtor |-> FALSE]

InitTimer ==
    /\ ClientFields({3}, {0}, {10}, {FALSE}, EmptyTrie)
    /\ usr = [t \in Users |-> Idle]
    /\ m_conf = DefaultConf
    /\ llRecvCb = "recvLocal"
    /\ m_mutex = "free"
    /\ channels = <<>>
    /\ llChannel = 0
    /\ scanLog = <<>>
    /\ m_dscvLoopRun = TRUE
    /\ m_gwWdThread = "wait"
    /\ ctor = CtorDone
    /\ dtor = "none"
    /\ inserted = <<>>
    /\ m_subs = EmptyTrie
    /\ m_recvCb = "null"
    /\ timer \in {[TimerUnborn EXCEPT !.now = n] : n \in 0..1}

\* What the timer leaves alone.
timerFrame == <<cacheVars, cacheHist, fnVars, clientVars, clockVars, threadVars, histVars,
                m_conf, m_mutex, llRecvCb, channels, m_dscvLoopRun, dtor, inserted, siteVars,
                m_subs, m_recvCb>>

\* Timer::Timer: the first execution is one interval from now, the handler
\* thread starts and waits.
TimerCreate(interval) ==
    /\ timer.pc = "none"
    /\ timer' = [timer EXCEPT !.pc = "wait", !.m_interval = interval,
                              !.m_nextExec = timer.now + interval, !.m_run = TRUE,
                              !.anchor = [at |-> timer.now + interval, idx |-> 0]]
    /\ UNCHANGED timerFrame

\* Timer::setNextExec(tp): the next execution is moved to tp and the handler
\* thread's wait takes the new instant.
Timer_setNextExec(tm, tp) == [tm EXCEPT !.m_nextExec = tp, !.sets = @ + 1]

\* The instant at which the next invocation is due, counted from the anchor.
NextDue(tm) == tm.anchor.at + (Len(tm.calls) - tm.anchor.idx) * tm.m_interval

\* Time passes: the waiting handler thread wakes at m_nextExec at the latest,
\* and a callback returns before the next invocation is due.
TimerTick ==
    /\ timer.pc \in {"wait", "cb"}
    /\ timer.now < MaxNow
    /\ timer.pc = "wait" => timer.now < timer.m_nextExec
    /\ timer.pc = "cb" => timer.now + 1 < NextDue(timer)
    /\ timer' = [timer EXCEPT !.now = @ + 1]
    /\ UNCHANGED timerFrame

\* handlerThread: wait_until returns false at m_nextExec with m_run set, and
\* m_cb is called.
TimerWake ==
    /\ timer.pc = "wait"
    /\ timer.m_run
    /\ timer.now >= timer.m_nextExec
    /\ timer' = [timer EXCEPT !.pc = "cb", !.calls = Append(@, timer.now),
                              !.stale = timer.m_nextExec, !.raced = FALSE]
    /\ UNCHANGED timerFrame

\* handlerThread: wait_until returns true once m_run is cleared, and the
\* thread ends.
TimerExit ==
    /\ timer.pc = "wait"
    /\ ~timer.m_run
    /\ timer' = [timer EXCEPT !.pc = "exited"]
    /\ UNCHANGED timerFrame

\* setNextExec(tp) called by the callback.
TimerCbSetNextExec(tp) ==
    /\ timer.pc = "cb"
    /\ timer.sets < MaxSets
    /\ tp > timer.now
    /\ tp <= MaxNow
    /\ timer' = [Timer_setNextExec(timer, tp) EXCEPT
                    !.anchor = [at |-> tp, idx |-> Len(timer.calls)]]
    /\ UNCHANGED timerFrame

\* setNextExec(tp) called by another thread, while the handler thread waits
\* or while the callback is in progress.
TimerSetNextExec(tp) ==
    /\ timer.pc \in {"wait", "cb"}
    /\ ~timer.dtor
    /\ timer.sets < MaxSets
    /\ tp >= timer.now
    /\ timer.pc = "cb" => tp > timer.now
    /\ tp <= MaxNow
    /\ timer' = [Timer_setNextExec(timer, tp) EXCEPT
                    !.anchor = [at |-> tp, idx |-> Len(timer.calls)],
                    !.raced = (timer.pc = "cb")]
    /\ UNCHANGED timerFrame

\* handlerThread after m_cb returned: `m_nextExec += m_interval`, made
\* without m_mutex. When setNextExec ran on another thread meanwhile, the
\* addition may have read m_nextExec before or after that store, or be
\* overwritten by it.
TimerCbReturn(next) ==
    /\ timer.pc = "cb"
    /\ next \in IF timer.raced
                THEN {timer.m_nextExec + timer.m_interval,
                      timer.stale + timer.m_interval, timer.m_nextExec}
                ELSE {timer.m_nextExec + timer.m_interval}
    /\ timer' = [timer EXCEPT !.pc = "wait", !.m_nextExec = next]
    /\ UNCHANGED timerFrame

\* Timer::~Timer: m_run is cleared under m_mutex and the thread notified.
TimerDestroy ==
    /\ timer.pc \in {"wait", "cb"}
    /\ ~timer.dtor
    /\ timer' = [timer EXCEPT !.m_run = FALSE, !.dtor = TRUE]
    /\ UNCHANGED timerFrame

TimerNexts == 0..(MaxNow + 3)

NextTimer ==
    \/ \E interval \in TimerIntervals : TimerCreate(interval)
    \/ TimerTick
    \/ TimerWake
    \/ TimerExit
    \/ \E tp \in 0..MaxNow : TimerCbSetNextExec(tp)
    \/ \E tp \in 0..MaxNow : TimerSetNextExec(tp)
    \/ \E next \in TimerNexts : TimerCbReturn(next)
    \/ TimerDestroy

SpecTimer == InitTimer /\ [][NextTimer]_vars

----------------------------------------------------------------------------
(* SpecEmpty: calls that have nothing to send *)

\* Client::subDBTick up to the call of sendLocal: the topics are collected
\* from the database under m_mutex; the function returns nothing.
CallSubDBTick(t) ==
    /\ usr[t].pc = "idle"
    /\ reqCount < MaxReqs
    /\ LET topics == {kv[1] : kv \in WildcardTrie_forEach(m_subDB)}
           call == [NewCall("subDBTick", "PUB_SUB_UNSUB", FALSE, <<>>, <<>>, <<>>)
                       EXCEPT !.snapshot = topics]
       IN usr' = [usr EXCEPT ![t] =
                    IF topics = {} THEN Returned(call, "VOID") ELSE call]
    /\ lastRecv' = NoRecv
    /\ UNCHANGED <<callerFrame, siteVars, clientVars, reqCount>>

\* The rest of subDBTick: the result of sendLocal is only logged.
FinishSubDBTick(t) ==
    /\ usr[t].pc = "finish"
    /\ usr[t].op = "subDBTick"
    /\ usr' = [usr EXCEPT ![t] = Returned(@, "VOID")]
    /\ lastRecv' = NoRecv
    /\ UNCHANGED <<callerFrame, siteVars, clientVars, reqCount>>

NextEmpty ==
    \/ \E t \in Users, p \in BulkPubs, s \in BulkSubs, u \in BulkUnsubs :
          CallPubSubUnsubBulk(t, p, s, u)
    \/ \E t \in Users : CallUnsubscribeAll(t)
    \/ \E t \in Users : CallResubscribeAll(t)
    \/ \E t \in Users : CallSubDBTick(t)
    \/ SendSteps
    \/ \E t \in Users : FinishPubSubUnsub(t)
    \/ \E t \in Users : FinishSubDBTick(t)
    \/ \E msg \in DBResps : RecvResp(msg)

SpecEmpty == InitDB /\ [][NextEmpty]_vars

\* Thread t starts, in this step, a call that has nothing to send: a
\* pubSubUnsubBulk of three empty lists, or an unsubscribeAll, a
\* resubscribeAll or a subDBTick that finds no subscription.
StartsEmpty(t) ==
    /\ usr[t].pc = "idle"
    /\ usr'[t].pc # "idle"
    /\ \/ /\ usr'[t].op = "pubSubUnsubBulk"
          /\ usr'[t].pubs = <<>> /\ usr'[t].subs = <<>> /\ usr'[t].unsubs = <<>>
       \/ /\ usr'[t].op \in {"unsubscribeAll", "resubscribeAll", "subDBTick"}
          /\ WildcardTrie_forEach(m_subDB) = {}

\* C26: a call that has nothing to send completes in the step that starts it
\* (with SUCCESS where it has a result; subDBTick has none), hands no message
\* to the local layer, registers no pending request and leaves msgsFailCnt,
\* the database and the message id alone.
C26_EmptyCalls ==
    [][\A t \in Users :
          StartsEmpty(t) =>
             /\ usr'[t].pc = "done"
             /\ usr'[t].ret = IF usr'[t].op = "subDBTick" THEN "VOID" ELSE "SUCCESS"
             /\ usr'[t].sendRet = "NOT_CALLED"
             /\ reqCount' = reqCount
             /\ m_pendingMsgs' = m_pendingMsgs
             /\ m_msgsFailCnt' = m_msgsFailCnt
             /\ m_msgId' = m_msgId
             /\ m_subDB' = m_subDB]_vars

\* A renewal tick found no subscription after an earlier request had failed.
C26_Witness ==
    \E t \in Users :
        /\ usr[t].pc = "done"
        /\ usr[t].op = "subDBTick"
        /\ usr[t].snapshot = {}
        /\ usr[t].ret = "VOID"
        /\ m_msgsFailCnt > 0
        /\ reqCount > 0

----------------------------------------------------------------------------
(* SpecOrder: responses that fail one check or another, delivered again *)

InitOrder == ClientStart({2}, {0}, {3}, {FALSE}, EmptyTrie)

\* The application makes one request.
OrderOnce(t) == reqCount = 0 /\ CallPubSubUnsubBulk(t, <<tA>>, <<>>, <<>>)

\* Responses that fail no check, one check or two: of the gateway or of
\* another node, of a type that fits the request or not, stamped now or in the
\* future, to the request sent last or to one never sent; once history
\* follows a rejected response, that response and the valid one.
OrderResp(ty, a, future, known) ==
    Msg(ty, a, 0, IF future THEN ToU16(Now + 1) ELSE Now,
        IF known THEN ToU16(m_msgId + U16 - 1) ELSE ToU16(m_msgId + 7))
OrderResps ==
    IF acc.set THEN {OrderResp("OK", GwAddr, FALSE, TRUE), acc.resp}
    ELSE
    {OrderResp("OK", GwAddr, FALSE, TRUE),
     OrderResp("OK", GwAddr, TRUE, TRUE),
     OrderResp("OK", GwAddr, FALSE, FALSE),
     OrderResp("OK", "gw3", FALSE, TRUE),
     OrderResp("PROBE_RES", GwAddr, FALSE, TRUE),
     OrderResp("PROBE_RES", GwAddr, TRUE, FALSE),
     OrderResp("PROBE_RES", "gw3", FALSE, FALSE),
     OrderResp("PROBE_RES", "gw3", FALSE, TRUE)}

\* The cache timer fires, until an id cached at the start has expired.
OrderTick == ticksDone <= m_maxAge /\ Tick

NextOrder ==
    \/ \E t \in Users : OrderOnce(t)
    \/ \E t \in Users : SendPrepare(t)
    \/ \E t \in Users : SendCall(t, "SUCCESS")
    \/ \E t \in Users : WaitReady(t)
    \/ \E t \in Users : WaitTimeout(t)
    \/ \E t \in Users : SendCollect(t)
    \/ \E t \in Users : Account(t)
    \/ \E t \in Users : FinishPubSubUnsub(t)
    \/ \E t \in Users : Return(t)
    \/ \E msg \in OrderResps, track \in BOOLEAN : RecvRespTrack(msg, track)
    \/ OrderTick
    \/ UnitPasses

SpecOrder == InitOrder /\ [][NextOrder]_vars

\* The results of a response that a check after the id check rejects.
LaterRejections == {"INVALID_ARG", "NOT_FOUND", "MSG_UNKNOWN_SENDER", "MSG_INVALID_TS"}

\* C27: a response is checked for its id, then its timestamp, then the
\* pending request, then (against a request in flight) the sender and the
\* pair of types, and the first check that fails gives the result (none of
\* these results when every check passes); a response
\* rejected by a check after the first has its id in the cache, and when it
\* is delivered again unchanged at most maxAge ticks later it is rejected
\* with MSG_DUP_ID.
C27_RespCheckOrder ==
    /\ lastRecv.kind = "resp" =>
          /\ lastRecv.inWindow => lastRecv.ret = "MSG_DUP_ID"
          /\ (~lastRecv.inWindow /\ ~lastRecv.tsOk) => lastRecv.ret = "MSG_INVALID_TS"
          /\ (~lastRecv.inWindow /\ lastRecv.tsOk /\ ~lastRecv.found) =>
                lastRecv.ret = "NOT_FOUND"
          /\ (~lastRecv.inWindow /\ lastRecv.tsOk /\ lastRecv.found /\ lastRecv.inFlight) =>
                IF ~lastRecv.addrOk THEN lastRecv.ret = "MSG_UNKNOWN_SENDER"
                ELSE IF ~lastRecv.pairOk THEN lastRecv.ret = "INVALID_ARG"
                ELSE lastRecv.ret \notin LaterRejections \cup {"MSG_DUP_ID"}
          /\ (lastRecv.redeliv /\ lastRecv.first \in LaterRejections /\ lastRecv.inWindow) =>
                lastRecv.ret = "MSG_DUP_ID"
    /\ (acc.set /\ acc.ret \in LaterRejections /\ InWindow(acc.addr, acc.id)) =>
          acc.id \in CachedIds(m_cache, acc.addr)

\* A response of the wrong type to a request in flight was rejected with
\* INVALID_ARG and, delivered again maxAge ticks later, with MSG_DUP_ID.
C27_Witness ==
    /\ lastRecv.kind = "resp"
    /\ lastRecv.redeliv
    /\ lastRecv.first = "INVALID_ARG"
    /\ lastRecv.ret = "MSG_DUP_ID"
    /\ sinceIns[acc.addr][acc.id] = m_maxAge
    /\ m_maxAge = 2

----------------------------------------------------------------------------
(* SpecInvalid: messages of a node type or a type that a client refuses *)

InitInvalid ==
    ClientStart({3}, {0}, {10}, {FALSE}, WildcardTrie_insert(EmptyTrie, tA, "cb1"))

\* Messages of the gateway's address with the first id, to the request sent
\* last: of every message type, sent as a gateway, a relay or a client.
RecvNodeTypes == {"GATEWAY", "RELAY", "CLIENT", "UNKNOWN"}
RecvTypes == {"OK", "FAIL", "PROBE_RES", "SUB_DATA", "PROBE_REQ", "PUB_SUB_UNSUB", "NONE"}
RecvMsgs ==
    {[Msg(ty, GwAddr, 0, Now, ToU16(m_msgId + U16 - 1)) EXCEPT !.nodeType = nt] :
        ty \in RecvTypes, nt \in RecvNodeTypes}

\* Client::recvLocal on a message: refused, or handled as a response or as
\* subscription data.
RecvLocal(msg) ==
    \/ RecvInvalid(msg)
    \/ RecvResp(msg)
    \/ RecvSubData(msg, FALSE)

\* The application makes one request.
InvalidOnce(t) == reqCount = 0 /\ CallPubSubUnsubBulk(t, <<tA>>, <<>>, <<>>)

NextInvalid ==
    \/ \E t \in Users : InvalidOnce(t)
    \/ SendSteps
    \/ \E t \in Users : FinishPubSubUnsub(t)
    \/ \E msg \in RecvMsgs : RecvLocal(msg)
    \/ AckSteps

SpecInvalid == InitInvalid /\ [][NextInvalid]_vars

\* The outcome of a receive is that of a message whose node type is neither
\* GATEWAY nor RELAY or whose type is none of OK, FAIL, PROBE_RES, SUB_DATA.
OfInvalidMsg(recv) ==
    /\ recv.kind # "none"
    /\ \/ recv.nodeType \notin {"GATEWAY", "RELAY"}
       \/ recv.type \notin {"OK", "FAIL", "PROBE_RES", "SUB_DATA"}

\* C28: the receive of such a message returns INVALID_ARG and changes
\* nothing: the id cache, the pending requests, the waiting callers, the
\* acknowledgment and callback sequence of the receive thread and the
\* message ids handed out are as before.
C28_InvalidRejected ==
    [][(lastRecv' # lastRecv /\ OfInvalidMsg(lastRecv')) =>
          /\ lastRecv'.kind = "invalid"
          /\ lastRecv'.ret = "INVALID_ARG"
          /\ m_cache' = m_cache
          /\ sinceIns' = sinceIns
          /\ m_pendingMsgs' = m_pendingMsgs
          /\ accepted' = accepted
          /\ usr' = usr
          /\ rcv' = rcv
          /\ reqCount' = reqCount
          /\ m_msgId' = m_msgId]_vars

\* An OK sent as a client to the request in flight was refused, and its id is
\* not in the cache.
C28_Witness ==
    /\ lastRecv.kind = "invalid"
    /\ lastRecv.type = "OK"
    /\ lastRecv.nodeType = "CLIENT"
    /\ \E t \in Users : usr[t].pc = "wait"
    /\ 0 \notin CachedIds(m_cache, GwAddr)

----------------------------------------------------------------------------
(* SpecRenew: the renewal of the subscriptions by the timer m_subDBTimer *)

tSlashA == <<"/", "a">>

\* Databases with one or two subscriptions, one of them to /a.
RenewDBs ==
    {TrieOf(tA :> "cb1"), TrieOf(tA :> "cb1" @@ tAB :> "cb2"),
     TrieOf(tSlashA :> "cb1" @@ tAB :> "cb2")}

\* A client with a gateway, or one whose last discovery attempt found none.
InitRenew ==
    /\ \E db \in RenewDBs : ClientStart({3}, {0}, {10}, {FALSE}, db)
    /\ \E gw \in {[addr |-> GwAddr, tsDiff |-> 0, channel |-> 0], NoGw} : m_gw = gw

NextRenew ==
    \/ \E t \in Users : CallSubDBTick(t)
    \/ \E t \in Users, s \in {<<>>, <<Sub(tAB, "cb1")>>}, u \in {<<>>, <<tA>>} :
          CallPubSubUnsubBulk(t, <<>>, s, u)
    \/ SendSteps
    \/ \E t \in Users : FinishPubSubUnsub(t)
    \/ \E t \in Users : FinishSubDBTick(t)
    \/ \E msg \in DBResps : RecvResp(msg)

SpecRenew == InitRenew /\ [][NextRenew]_vars

\* The key of a leaf as it was inserted: its levels joined by the separator.
RECURSIVE JoinLevels(_)
JoinLevels(path) ==
    IF Len(path) = 1 THEN path[1]
    ELSE JoinLevels(Prefix(path, Len(path) - 1)) \o lSep \o path[Len(path)]

\* The topics subscribed in a database.
Topics(db) == {JoinLevels(p) : p \in {q \in DOMAIN db : db[q].isLeaf}}

\* The frame of a call of subDBTick.
InTick(call) == call.pc # "idle" /\ call.op = "subDBTick"

\* C34: a renewal tick that finds subscriptions does not change the database
\* and hands to the local layer one PUB_SUB_UNSUB and no more, addressed to
\* the gateway current at that time, whose subs are the topics of the
\* database as the tick found it, without pubs or unsubs, whether or not an
\* earlier tick failed; it ends without a result and the timer may tick again.
C34_RenewalTick ==
    [][\A t \in DOMAIN usr :
          /\ (InTick(usr[t]) /\ usr'[t] # usr[t]) =>
                /\ m_subDB' = m_subDB
                /\ reqCount' # reqCount => usr[t].sendRet = "NOT_CALLED" /\ usr[t].id = -1
          /\ (InTick(usr'[t]) /\ usr'[t].pc = "done" /\ Topics(usr'[t].dbBefore) # {}
                /\ usr'[t].gw # NoAddr) =>
                /\ usr'[t].sendRet # "NOT_CALLED"
                /\ usr'[t].type = "PUB_SUB_UNSUB"
                /\ usr'[t].dest = usr'[t].gw
                /\ usr'[t].snapshot = Topics(usr'[t].dbBefore)
                /\ usr'[t].pubs = <<>> /\ usr'[t].subs = <<>> /\ usr'[t].unsubs = <<>>
                /\ usr'[t].ret = "VOID"]_vars

----------------------------------------------------------------------------
(* SpecUnsubAll: unsubscribeAll next to a subscribe of another thread *)

UaUsers == {"u1", "u2"}

\* A client subscribed to a, with two application threads.
InitUnsubAll ==
    /\ ClientFields({3}, {0}, {10}, {FALSE}, TrieOf(tA :> "cb1"))
    /\ usr = [t \in UaUsers |-> Idle]
    /\ Settled

\* The gateway's OK to a pending request.
UaResps ==
    {Msg("OK", GwAddr, i, Now, r) : i \in FreshId(GwAddr), r \in DOMAIN m_pendingMsgs}

NextUnsubAll ==
    \/ CallUnsubscribeAll("u1")
    \/ CallPubSubUnsubBulk("u2", <<>>, <<Sub(tAB, "cb2")>>, <<>>)
    \/ \E t \in UaUsers : SendPrepare(t)
    \/ \E t \in UaUsers : SendCall(t, "SUCCESS")
    \/ \E t \in UaUsers : WaitReady(t)
    \/ \E t \in UaUsers : WaitTimeout(t)
    \/ \E t \in UaUsers : SendCollect(t)
    \/ \E t \in UaUsers : Account(t)
    \/ \E t \in UaUsers : FinishPubSubUnsub(t)
    \/ \E t \in UaUsers : Return(t)
    \/ \E msg \in UaResps : RecvResp(msg)

SpecUnsubAll == InitUnsubAll /\ [][NextUnsubAll]_vars

----------------------------------------------------------------------------
(* SpecTsScan: a user's request while another thread discovers the gateway *)

TsUsers == {"u1", "u2"}

\* A timestamp older than the accepted window of the client's clock.
StaleTs == ToU16(Now + U16 - 2 * m_maxAge)

InitTsScan ==
    /\ ClientFields({3}, {0}, {10}, {FALSE}, EmptyTrie)
    /\ usr = [t \in TsUsers |-> Idle]
    /\ Settled

\* The gateway answers a request that is pending, in time or with a stale
\* timestamp.
TsResps ==
    {Msg(ty, GwAddr, i, ts, r) : ty \in {"OK", "PROBE_RES"}, i \in FreshId(GwAddr),
                                 ts \in {Now, StaleTs}, r \in DOMAIN m_pendingMsgs}

NextTsScan ==
    \/ CallPubSubUnsubBulk("u1", <<>>, <<Sub(tA, "cb1")>>, <<>>)
    \/ CallDiscoverGateway("u2", 1)
    \/ \E t \in TsUsers : DscvLoop(t)
    \/ \E t \in TsUsers : SendPrepare(t)
    \/ \E t \in TsUsers : SendCall(t, "SUCCESS")
    \/ \E t \in TsUsers : BroadcastCollect(t)
    \/ \E t \in TsUsers : FinishDiscoverGateway(t)
    \/ \E t \in TsUsers : DscvDecide(t, "SUCCESS")
    \/ \E t \in TsUsers : DscvWait(t)
    \/ \E t \in TsUsers : WaitReady(t)
    \/ \E t \in TsUsers : WaitTimeout(t)
    \/ \E t \in TsUsers : SendCollect(t)
    \/ \E t \in TsUsers : Account(t)
    \/ \E t \in TsUsers : FinishPubSubUnsub(t)
    \/ \E t \in TsUsers : Return(t)
    \/ \E msg \in TsResps : RecvResp(msg)

SpecTsScan == InitTsScan /\ [][NextTsScan]_vars

\* The response received last answers a PUB_SUB_UNSUB request in flight and
\* carries a new message id.
AnswersUserRequest ==
    /\ lastRecv.kind = "resp"
    /\ lastRecv.inFlight
    /\ lastRecv.reqType = "PUB_SUB_UNSUB"
    /\ lastRecv.ret # "MSG_DUP_ID"

\* C37: a response to a user's PUB_SUB_UNSUB request whose timestamp lies
\* outside the accepted window is rejected with MSG_INVALID_TS, also while a
\* discovery scan of another thread is in progress.
C37_UserResponseTsChecked ==
    (AnswersUserRequest /\ ~lastRecv.tsValid) => lastRecv.ret = "MSG_INVALID_TS"

\* The same outside a scan: with no discovery attempt holding m_dscvSyncMutex
\* the stale response is rejected.
TsCheckedOutsideScan ==
    (AnswersUserRequest /\ ~lastRecv.tsValid /\ dscvSyncMutex = "free") =>
        lastRecv.ret = "MSG_INVALID_TS"

----------------------------------------------------------------------------
(* SpecUnsub: SUB_DATA delivery while the application unsubscribes *)

\* WildcardTrie::find as recvLocalSubData receives it: FindReturnT maps the
\* matched key string to a reference to the node's value; the reference is
\* the path of the node, and `value` is what it referred to when found.
RECURSIVE FindRefs(_, _, _, _)
FindRefs(trie, levels, frontier, refs) ==
    IF frontier = {} THEN refs
    ELSE LET exact == {p \in frontier : Len(p) = Len(levels) /\ trie[p].isLeaf}
             inner == {p \in frontier : Len(p) < Len(levels)}
             next == UNION {{c \in Childs(trie, p) :
                               \/ c[Len(c)] = levels[Len(p) + 1]
                               \/ c[Len(c)] = lSingleWild} : p \in inner}
             multi == UNION {{c \in Childs(trie, p) :
                               /\ c[Len(c)] # levels[Len(p) + 1]
                               /\ c[Len(c)] # lSingleWild
                               /\ c[Len(c)] = lMultiWild
                               /\ trie[c].isLeaf} : p \in inner}
             found == exact \cup multi
             newKeys == {NodeKey(p) : p \in found} \ DOMAIN refs
             r2 == [k \in DOMAIN refs \cup newKeys |->
                       IF k \in DOMAIN refs THEN refs[k]
                       ELSE LET p == CHOOSE q \in found : NodeKey(q) = k
                            IN [path |-> p, value |-> trie[p].value]]
         IN FindRefs(trie, levels, next, r2)

\* The state of the receive thread after the entries of subsData[i] have been
\* dealt with: the next SubData, or the return of recvLocalSubData.
DeliverAdvance(i) ==
    IF i >= Len(rcv.subsData) THEN RcvIdle
    ELSE [pc |-> "deliver", idx |-> i + 1, entries |-> <<>>] @@ rcv

\* The index of the SubData the callback loop is at.
DeliverIdx == IF "idx" \in DOMAIN rcv THEN rcv.idx ELSE 1

\* The critical section of the callback loop: entries = m_subDB.find(topic)
\* under m_mutex.
DeliverFind ==
    /\ rcv.pc = "deliver"
    /\ LET i == DeliverIdx
           entries == IF i > Len(rcv.subsData) THEN <<>>
                      ELSE FindRefs(m_subDB, splitToLevels(rcv.subsData[i].topic),
                                    {<<>>}, <<>>)
       IN rcv' = IF DOMAIN entries = {} THEN DeliverAdvance(i)
                 ELSE [pc |-> "call", idx |-> i, entries |-> entries] @@ rcv
    /\ lastRecv' = NoRecv
    /\ UNCHANGED <<extVars, cacheVars, cacheHist, fnVars, clientVars, clockVars, usr,
                   reqCount, accepted, acc>>

\* What calling through a reference does: the value the node holds now, or,
\* when the node has been destroyed, the behaviour of a call through a
\* dangling reference (the old callback runs, or the process crashes).
CallThrough(db, ref) ==
    IF ref.path \in DOMAIN db THEN {db[ref.path].value} ELSE {ref.value, "CRASH"}

\* cb(subData) for one entry, outside m_mutex.
DeliverCall(k) ==
    /\ rcv.pc = "call"
    /\ k \in DOMAIN rcv.entries
    /\ LET ref == rcv.entries[k]
           rest == [x \in DOMAIN rcv.entries \ {k} |-> rcv.entries[x]]
       IN /\ \E cb \in CallThrough(m_subDB, ref) :
                lastRecv' = [kind |-> "call", key |-> k,
                             topic |-> rcv.subsData[rcv.idx].topic, cb |-> cb,
                             found |-> ref.value,
                             dangling |-> ref.path \notin DOMAIN m_subDB,
                             stored |-> (ref.path \in DOMAIN m_subDB
                                         /\ m_subDB[ref.path].isLeaf)]
          /\ rcv' = IF DOMAIN rest = {} THEN DeliverAdvance(rcv.idx)
                    ELSE [rcv EXCEPT !.entries = rest]
    /\ UNCHANGED <<extVars, cacheVars, cacheHist, fnVars, clientVars, clockVars, usr,
                   reqCount, accepted, acc>>

\* The topics the client subscribes to with one callback each.
UnsubDBs == {TrieOf(tA :> "cb1"), TrieOf(tA :> "cb1" @@ tAB :> "cb2")}

InitUnsub ==
    /\ \E db \in UnsubDBs : ClientStart({3}, {0}, {10}, {FALSE}, db)

\* The gateway acknowledges a pending request.
UnsubResps ==
    {Msg("OK", GwAddr, i, Now, r) : i \in FreshId(GwAddr), r \in DOMAIN m_pendingMsgs}

NextUnsub ==
    \/ \E t \in Users : CallPubSubUnsubBulk(t, <<>>, <<>>, <<tA>>)
    \/ \E t \in Users : CallUnsubscribeAll(t)
    \/ \E t \in Users : SendPrepare(t)
    \/ \E t \in Users : SendCall(t, "SUCCESS")
    \/ \E t \in Users : WaitReady(t)
    \/ \E t \in Users : WaitTimeout(t)
    \/ \E t \in Users : SendCollect(t)
    \/ \E t \in Users : Account(t)
    \/ \E t \in Users : FinishPubSubUnsub(t)
    \/ \E t \in Users : Return(t)
    \/ \E msg \in UnsubResps : RecvResp(msg)
    \/ \E msg \in ReqSubData : RecvSubData(msg, FALSE)
    \/ AckPrepare
    \/ AckSend("SUCCESS")
    \/ DeliverFind
    \/ \E k \in {tA, tAB} : DeliverCall(k)

SpecUnsub == InitUnsub /\ [][NextUnsub]_vars

\* A call of unsubscribe(key) or of unsubscribeAll that covered `key` has
\* returned SUCCESS.
Unsubscribed(key) ==
    \E t \in DOMAIN usr :
        /\ usr[t].pc = "done"
        /\ usr[t].ret = "SUCCESS"
        /\ \/ /\ usr[t].op = "pubSubUnsubBulk"
              /\ \E i \in DOMAIN usr[t].unsubs : usr[t].unsubs[i] = key
           \/ /\ usr[t].op = "unsubscribeAll"
              /\ key \in usr[t].snapshot

\* C40: a callback is not invoked for a topic whose unsubscribe or
\* unsubscribeAll has returned SUCCESS, also when the SUB_DATA message was
\* being processed before that, and a callback is never invoked through a
\* reference to an entry that has been removed from the database.
C40_NoCallAfterUnsubscribe ==
    lastRecv.kind = "call" => (~lastRecv.dangling /\ ~Unsubscribed(lastRecv.key))

\* A callback invoked for an entry that the database still holds is the
\* callback stored for it.
CallOfStoredEntry ==
    (lastRecv.kind = "call" /\ lastRecv.stored) =>
        (~lastRecv.dangling /\ lastRecv.cb = lastRecv.found /\ ~Unsubscribed(lastRecv.key))

----------------------------------------------------------------------------
(* SpecTeardown: the timers' callbacks while the client is destroyed *)

\* The handler threads of m_subDBTimer and of m_timeSyncTimer.
SubDBTimerThread == "subDBTimer"
TimeSyncTimerThread == "timeSyncTimer"
TimerThreads == {SubDBTimerThread, TimeSyncTimerThread}

\* Positions of the destroying thread after the body of ~Client: the members
\* are destroyed in the reverse order of their declaration, so m_gwWdThread
\* down to m_pendingMsgs and m_gw go first ("members"), then m_timeSyncTimer
\* (m_run cleared: "sync_stop", thread joined: "sync_joined"), then
\* m_subDBTimer ("sub_stop", "destroyed").
AfterBody == {"members", "sync_stop", "sync_joined", "sub_stop", "destroyed"}

\* Timer::handlerThread of thread t has not seen m_run cleared.
TimerRuns(t) ==
    IF t = TimeSyncTimerThread
    THEN dtor \notin {"sync_stop", "sync_joined", "sub_stop", "destroyed"}
    ELSE dtor \notin {"sub_stop", "destroyed"}

\* wait_until returns with the interval passed: m_cb() is called.
SubDBTimerFire == TimerRuns(SubDBTimerThread) /\ CallSubDBTick(SubDBTimerThread)
TimeSyncTimerFire == TimerRuns(TimeSyncTimerThread) /\ CallSyncTime(TimeSyncTimerThread)

\* The destruction of the members declared after the timers.
DtorMembers ==
    /\ dtor = "done"
    /\ dtor' = "members"
    /\ lastRecv' = NoRecv
    /\ UNCHANGED <<dtorFrame, llRecvCb, m_dscvLoopRun, m_gwWdThread>>

\* Timer::~Timer up to the notification: m_run = false.
DtorTimerStop ==
    /\ dtor \in {"members", "sync_joined"}
    /\ dtor' = IF dtor = "members" THEN "sync_stop" ELSE "sub_stop"
    /\ lastRecv' = NoRecv
    /\ UNCHANGED <<dtorFrame, llRecvCb, m_dscvLoopRun, m_gwWdThread>>

\* Timer::~Timer: m_thread.join() returns once the handler thread has left
\* its callback and seen m_run cleared.
DtorTimerJoin ==
    /\ dtor \in {"sync_stop", "sub_stop"}
    /\ usr[IF dtor = "sync_stop" THEN TimeSyncTimerThread ELSE SubDBTimerThread].pc = "idle"
    /\ dtor' = IF dtor = "sync_stop" THEN "sync_joined" ELSE "destroyed"
    /\ lastRecv' = NoRecv
    /\ UNCHANGED <<dtorFrame, llRecvCb, m_dscvLoopRun, m_gwWdThread>>

\* A callback in the middle of sendLocal when m_pendingMsgs and m_gw have
\* been destroyed: its next access is undefined; besides going on as if the
\* members were alive, the process may crash.
TimerUseAfterDestroy(t) ==
    /\ dtor \in AfterBody
    /\ usr[t].pc \in InFlightPcs \cup {"prepare"}
    /\ usr' = [usr EXCEPT ![t] = [pc |-> "crashed"]]
    /\ lastRecv' = NoRecv
    /\ UNCHANGED <<callerFrame, siteVars, clientVars, reqCount>>

InitTeardown ==
    /\ ClientFields({3}, {0}, {10}, {FALSE}, TrieOf(tA :> "cb1"))
    /\ usr = [t \in TimerThreads \cup {WdThread} |-> Idle]
    /\ Settled

\* The gateway answers the request sent last; the local layer passes the
\* answer on while it has the client's callback.
TeardownRecv(msg) == llRecvCb = "recvLocal" /\ RecvResp(msg)

NextTeardown ==
    \/ SubDBTimerFire
    \/ TimeSyncTimerFire
    \/ \E t \in TimerThreads : SendPrepare(t)
    \/ \E t \in TimerThreads : SendCall(t, "SUCCESS")
    \/ \E t \in TimerThreads : WaitReady(t)
    \/ \E t \in TimerThreads : WaitTimeout(t)
    \/ \E t \in TimerThreads : SendCollect(t)
    \/ \E t \in TimerThreads : Account(t)
    \/ \E t \in TimerThreads : FinishSubDBTick(t)
    \/ \E t \in TimerThreads : FinishSyncTime(t)
    \/ \E t \in TimerThreads : Return(t)
    \/ \E t \in TimerThreads : TimerUseAfterDestroy(t)
    \/ \E msg \in WdResps : TeardownRecv(msg)
    \/ WdWoken
    \/ DtorSteps
    \/ DtorMembers
    \/ DtorTimerStop
    \/ DtorTimerJoin

SpecTeardown == InitTeardown /\ [][NextTeardown]_vars

\* Thread t is inside its timer's callback.
InCallback(t) == usr[t].pc \notin {"idle", "done"}

\* C35: once the destructor has joined the watchdog, cleared the receive
\* callback and acquired both mutexes, no renewal and no periodic time sync
\* is running or starts: no timer thread is inside its callback from then on.
C35_NoTimerCallbackInTeardown ==
    dtor \in {"done"} \cup AfterBody => \A t \in TimerThreads : ~InCallback(t)

\* When both timers have been joined no callback is running.
TimersJoined == dtor = "destroyed" => \A t \in TimerThreads : usr[t].pc = "idle"

\* While the destructor has not reached its final lock, the time sync that
\* holds m_dscvSyncMutex keeps it from returning.
DtorWaitsForSync ==
    [][(dtor = "locks" /\ dtor' = "done") => dscvSyncMutex = "free"]_vars

----------------------------------------------------------------------------
(* SpecLocks: the two mutexes.  Each function is reduced to the sequence of  *)
(* its operations on m_mutex ("m") and m_dscvSyncMutex ("d"), its calls into *)
(* the local layer and its waits; a thread executes one operation per step.  *)

\* A faulty sendLocalUnchecked: the message is sent inside the first critical
\* section.
sendLocalUnchecked_ops_sendLocked(noResp) ==
    <<"lock_m", "send", "unlock_m">> \o
        (IF noResp THEN <<>> ELSE <<"wait", "lock_m", "unlock_m">>)

\* Client::sendLocalUnchecked: prepare under m_mutex, m_ll->send, wait_for on
\* the future, then erase (and read the response) under m_mutex.
sendLocalUnchecked_ops(noResp) ==
    <<"lock_m", "unlock_m", "send">> \o
        (IF noResp THEN <<>> ELSE <<"wait", "lock_m", "unlock_m">>)

\* Client::sendLocalUncheckedBroadcast: sleep_for takes the place of the wait.
sendLocalUncheckedBroadcast_ops ==
    <<"lock_m", "unlock_m", "send", "wait", "lock_m", "unlock_m">>

\* Client::sendLocal: sendLocalUnchecked and the update of m_msgsFailCnt.
sendLocal_ops == sendLocalUnchecked_ops(FALSE) \o <<"lock_m", "unlock_m">>

\* Client::pubSubUnsubBulk: sendLocal and "Modify local data".
pubSubUnsubBulk_ops == sendLocal_ops \o <<"lock_m", "unlock_m">>

\* Client::subDBTick: "Populate data" and sendLocal.
subDBTick_ops == <<"lock_m", "unlock_m">> \o sendLocal_ops

\* Client::syncTime: all of it under m_dscvSyncMutex; the result is stored,
\* or the failure counted, under m_mutex.
syncTime_ops == <<"lock_d">> \o sendLocal_ops \o <<"lock_m", "unlock_m", "unlock_d">>

\* Client::discoverGateway, one attempt on one channel: the scan under
\* m_dscvSyncMutex; with a gateway found the local layer is set to its
\* channel under m_mutex, without one m_gw is reset and the thread sleeps in
\* m_dscvLoopCv.wait_for, which releases m_mutex while it waits.
discoverGateway_ops(found) ==
    <<"lock_d", "setChannel">> \o sendLocalUncheckedBroadcast_ops \o
        (IF found THEN <<"lock_m", "setChannelBest", "unlock_m", "unlock_d">>
         ELSE <<"lock_m", "unlock_m", "unlock_d", "lock_m", "cvwait_m", "wake_m",
                "unlock_m">>)

\* Client::gwWatchdogHandler: the early check, m_gwWdCv.wait and discoverGateway.
gwWatchdogHandler_ops(found) ==
    <<"lock_m", "unlock_m", "lock_m", "cvwait_m", "wake_m", "unlock_m">> \o
        discoverGateway_ops(found)

\* Client::recvLocalResp
recvLocalResp_ops == <<"lock_m", "unlock_m">>

\* Client::recvLocalSubData: validation, the acknowledgment, find and the
\* callbacks.
recvLocalSubData_ops ==
    <<"lock_m", "unlock_m">> \o sendLocalUnchecked_ops(TRUE) \o
        <<"lock_m", "unlock_m", "callback">>

\* Client::~Client: std::scoped_lock on both mutexes locks them as std::lock
\* does, in no fixed order and without blocking while it holds one.
dtor_ops == <<"lock_m", "unlock_m", "join", "setRecvCb", "lockBoth", "unlockBoth">>

RecvThread == "rx"
LockThreads == {"u1", WdThread, RecvThread, MainThread}

\* The functions a thread runs, with their operations.
LockPrograms(t) ==
    IF t = MainThread THEN {[fn |-> "~Client", ops |-> dtor_ops]}
    ELSE IF t = WdThread
    THEN {[fn |-> "gwWatchdogHandler", ops |-> gwWatchdogHandler_ops(f)] : f \in BOOLEAN}
    ELSE IF t = RecvThread
    THEN {[fn |-> "recvLocalResp", ops |-> recvLocalResp_ops],
          [fn |-> "recvLocalSubData", ops |-> recvLocalSubData_ops]}
    ELSE {[fn |-> "pubSubUnsubBulk", ops |-> pubSubUnsubBulk_ops],
          [fn |-> "subDBTick", ops |-> subDBTick_ops],
          [fn |-> "syncTime", ops |-> syncTime_ops]}

\* What a local layer that calls the receive callback from inside send runs
\* on the sending thread before send returns: nothing, or recvLocal for a
\* response or for SUB_DATA.  A send made inside the callback delivers nothing.
SyncCallbacks ==
    {<<>>, recvLocalResp_ops \o <<"cb_return">>, recvLocalSubData_ops \o <<"cb_return">>}

lockFrame == <<cacheVars, cacheHist, fnVars, m_gw, m_pendingMsgs, m_subDB, m_msgId,
               m_msgsFailCnt, m_timeSyncNoRespCnt, m_ignoreInvalidMsgTs, gwWdNotified,
               clockVars, rcv, reqCount, accepted, acc, m_conf, llRecvCb, compVars,
               channels, m_dscvLoopRun, dtor, inserted, siteVars>>

InitLocks ==
    /\ ClientFields({3}, {0}, {10}, {FALSE}, EmptyTrie)
    /\ usr = [t \in LockThreads |-> Idle]
    /\ Settled

\* The operation thread t is at.
NextOp(t) == IF usr[t].pc = "ops" THEN Head(usr[t].prog) ELSE "none"

\* The frame of t after its current operation, holding `held`, with `more`
\* operations to run first.
AfterOp(t, held, more) ==
    LET prog == more \o Tail(usr[t].prog)
    IN IF prog = <<>> THEN (IF t = MainThread THEN [pc |-> "done"] ELSE Idle)
       ELSE [usr[t] EXCEPT !.prog = prog, !.held = held,
                           !.nest = IF NextOp(t) = "cb_return" THEN FALSE
                                    ELSE IF more # <<>> THEN TRUE ELSE @]

Without(held, x) == SelectSeq(held, LAMBDA y : y # x)

OpDone(t) ==
    lastRecv' = [kind |-> "op", t |-> t, op |-> NextOp(t), held |-> usr[t].held,
                 nest |-> usr[t].nest]

\* A thread enters one of its functions.
LockCall(t, p) ==
    /\ usr[t].pc = "idle"
    /\ usr' = [usr EXCEPT ![t] = [pc |-> "ops", fn |-> p.fn, prog |-> p.ops,
                                  held |-> <<>>, nest |-> FALSE]]
    /\ lastRecv' = NoRecv
    /\ UNCHANGED <<lockFrame, m_mutex, dscvSyncMutex>>

\* std::scoped_lock / std::unique_lock on one mutex, and the return of a
\* condition variable's wait: the thread proceeds when the mutex is free.
LockAcquire(t) ==
    /\ NextOp(t) \in {"lock_m", "wake_m", "lock_d"}
    /\ IF NextOp(t) = "lock_d"
       THEN /\ Lockable(dscvSyncMutex)
            /\ dscvSyncMutex' = t
            /\ usr' = [usr EXCEPT ![t] = AfterOp(t, Append(usr[t].held, "d"), <<>>)]
            /\ UNCHANGED m_mutex
       ELSE /\ Lockable(m_mutex)
            /\ m_mutex' = t
            /\ usr' = [usr EXCEPT ![t] = AfterOp(t, Append(usr[t].held, "m"), <<>>)]
            /\ UNCHANGED dscvSyncMutex
    /\ OpDone(t)
    /\ UNCHANGED lockFrame

\* The end of a lock's scope, and the start of a condition variable's wait.
LockRelease(t) ==
    /\ NextOp(t) \in {"unlock_m", "cvwait_m", "unlock_d", "unlockBoth"}
    /\ m_mutex' = IF NextOp(t) = "unlock_d" THEN m_mutex ELSE "free"
    /\ dscvSyncMutex' = IF NextOp(t) \in {"unlock_d", "unlockBoth"} THEN "free"
                        ELSE dscvSyncMutex
    /\ usr' = [usr EXCEPT ![t] =
                 AfterOp(t, IF NextOp(t) = "unlockBoth" THEN <<>>
                            ELSE IF NextOp(t) = "unlock_d" THEN Without(usr[t].held, "d")
                            ELSE Without(usr[t].held, "m"), <<>>)]
    /\ OpDone(t)
    /\ UNCHANGED lockFrame

\* m_ll->send and m_ll->setChannel; send may run the receive callback on the
\* calling thread.
LockLayerCall(t, cb) ==
    /\ NextOp(t) \in {"send", "setChannel", "setChannelBest"}
    /\ cb # <<>> => (NextOp(t) = "send" /\ ~usr[t].nest)
    /\ usr' = [usr EXCEPT ![t] = AfterOp(t, usr[t].held, cb)]
    /\ OpDone(t)
    /\ UNCHANGED <<lockFrame, m_mutex, dscvSyncMutex>>

\* The waits and the steps that touch no mutex; m_gwWdThread.join() returns
\* when the watchdog thread is not running.
LockOther(t) ==
    /\ NextOp(t) \in {"wait", "callback", "cb_return", "setRecvCb", "join"}
    /\ NextOp(t) = "join" => usr[WdThread].pc = "idle"
    /\ usr' = [usr EXCEPT ![t] = AfterOp(t, usr[t].held, <<>>)]
    /\ OpDone(t)
    /\ UNCHANGED <<lockFrame, m_mutex, dscvSyncMutex>>

\* std::lock: one of the two mutexes is locked ...
LockBothFirst(t, x) ==
    /\ NextOp(t) = "lockBoth"
    /\ usr[t].held = <<>>
    /\ IF x = "m" THEN Lockable(m_mutex) /\ m_mutex' = t /\ UNCHANGED dscvSyncMutex
       ELSE Lockable(dscvSyncMutex) /\ dscvSyncMutex' = t /\ UNCHANGED m_mutex
    /\ usr' = [usr EXCEPT ![t].held = <<x>>]
    /\ OpDone(t)
    /\ UNCHANGED lockFrame

\* ... and the other one tried: if it is taken the first is released and the
\* thread starts over.
LockBothSecond(t) ==
    /\ NextOp(t) = "lockBoth"
    /\ usr[t].held # <<>>
    /\ LET x == usr[t].held[1]
           otherFree == IF x = "m" THEN Lockable(dscvSyncMutex) ELSE Lockable(m_mutex)
       IN IF otherFree
          THEN /\ m_mutex' = t
               /\ dscvSyncMutex' = t
               /\ usr' = [usr EXCEPT ![t] =
                            AfterOp(t, <<x, IF x = "m" THEN "d" ELSE "m">>, <<>>)]
          ELSE /\ m_mutex' = IF x = "m" THEN "free" ELSE m_mutex
               /\ dscvSyncMutex' = IF x = "d" THEN "free" ELSE dscvSyncMutex
               /\ usr' = [usr EXCEPT ![t].held = <<>>]
    /\ OpDone(t)
    /\ UNCHANGED lockFrame

NextLocks ==
    \/ \E t \in LockThreads : \E p \in LockPrograms(t) : LockCall(t, p)
    \/ \E t \in LockThreads : LockAcquire(t)
    \/ \E t \in LockThreads : LockRelease(t)
    \/ \E t \in LockThreads, cb \in SyncCallbacks : LockLayerCall(t, cb)
    \/ \E t \in LockThreads : LockOther(t)
    \/ \E t \in LockThreads, x \in {"m", "d"} : LockBothFirst(t, x)
    \/ \E t \in LockThreads : LockBothSecond(t)

SpecLocks == InitLocks /\ [][NextLocks]_vars

HoldsM(held) == \E i \in DOMAIN held : held[i] = "m"

\* Thread t cannot proceed because the mutex it asks for is taken; the holder.
Blocked(t) ==
    \/ NextOp(t) \in {"lock_m", "wake_m"} /\ m_mutex # "free"
    \/ NextOp(t) = "lock_d" /\ dscvSyncMutex # "free"
Holder(t) == IF NextOp(t) = "lock_d" THEN dscvSyncMutex ELSE m_mutex

\* No thread waits for a mutex it holds itself, and no two threads wait for
\* each other's mutex.
NoMutexDeadlock ==
    \A t \in LockThreads :
        Blocked(t) => (Holder(t) # t /\ ~(Blocked(Holder(t)) /\ Holder(Holder(t)) = t))

\* The operation just executed was a call into the local layer or a wait.
DidOp(ops) == lastRecv.kind = "op" /\ lastRecv.op \in ops

\* m_mutex is not held during a send, a response wait, or a setChannel of
\* the scan.
SendOutsideFineMutex ==
    DidOp({"send", "wait", "setChannel"}) => ~HoldsM(lastRecv.held)

\* Both mutexes held by t, in the order of their acquisition.
HoldsBoth(t) == usr[t].pc = "ops" /\ Len(usr[t].held) = 2

\* The fine mutex is never held during a call into the local layer (send,
\* setChannel) or a wait for a response; a thread that holds both mutexes
\* acquired m_dscvSyncMutex first; no threads deadlock on the two mutexes,
\* also when send runs the receive callback on the calling thread.
C31_FineMutexNeverHeld ==
    /\ DidOp({"send", "wait", "setChannel", "setChannelBest"}) => ~HoldsM(lastRecv.held)
    /\ \A t \in LockThreads : HoldsBoth(t) => usr[t].held = <<"d", "m">>
    /\ NoMutexDeadlock

\* C31: the fine mutex is never held during m_ll->send or during a wait for
\* a response, and the only call into the local layer made under it is the
\* setChannel to the chosen gateway's channel at the end of a successful
\* discovery attempt, made with m_dscvSyncMutex acquired first; a thread
\* other than the destructor that holds both mutexes acquired
\* m_dscvSyncMutex first, and the destructor takes the two together, in
\* either order, never blocked on one while it holds the other; no threads
\* deadlock on the two mutexes, also when send runs the receive callback on
\* the calling thread.
C31_FineMutexDiscipline ==
    /\ SendOutsideFineMutex
    /\ DidOp({"setChannelBest"}) => lastRecv.held = <<"d", "m">>
    /\ \A t \in LockThreads \ {MainThread} : HoldsBoth(t) => usr[t].held = <<"d", "m">>
    /\ Blocked(MainThread) => usr[MainThread].held = <<>>
    /\ NoMutexDeadlock

\* A receive callback run from inside the send of a time sync or of a
\* discovery has taken m_mutex while its thread holds m_dscvSyncMutex, and
\* the destroying thread waits for its two locks.
C31_Witness ==
    /\ lastRecv.kind = "op"
    /\ lastRecv.op = "lock_m"
    /\ lastRecv.nest
    /\ lastRecv.held = <<"d">>
    /\ NextOp(MainThread) = "lockBoth"

====
